---- MODULE Spec2Model ----
(***************************************************************************)
(* Merkle distribution: leaf hashing, tree construction, proofs, off-line  *)
(* verification (scripts/*.ts), the Merkle verifier contract and the       *)
(* DeusdMerkleDistributor claim contract.                                  *)
(*                                                                         *)
(* Hash model.  keccak256 is modelled symbolically as an injective         *)
(* function (collision-free): a digest is the term of its own preimage.    *)
(* A byte string is a sequence of chunks; a chunk is one of                *)
(*    <<0, m, e>>         a 32-byte big-endian unsigned word, m * 10^e     *)
(*                        (abi.encode pads an address to such a word)      *)
(*    <<1, bytes>>        the 32-byte keccak256 digest of the byte string  *)
(*    <<2, a>>            a 20-byte packed address                         *)
(*    <<3, k>>            the k-byte EIP-191 prefix string                 *)
(* Every 32-byte value is either a small word or a digest.                 *)
(*                                                                         *)
(* Amounts.  An amount of token base units is the pair <<m, e>> standing   *)
(* for m * 10^e (parseUnits shifts by the decimals, 18 in generate.ts);    *)
(* an address is a positive integer.  An unsigned word carries either.     *)
(***************************************************************************)
EXTENDS Integers, Sequences, FiniteSets, TLC

\* ------------------------------------------------------------ bounds
MaxRows == 3
MaxLeaves == 6

VARIABLES
    csv,          \* data/allowlist.csv: the input rows [address, amount]
    decimals,     \* option --decimals
    privateKey,   \* environment PRIVATE_KEY (0 = not set)
    dist,         \* distribution.json as last written
    tree,         \* tree.json as last written
    exitCode,     \* exit code of the last generator run (-1: none yet)
    stdout,       \* what that run printed about its proof verification
    ref,          \* a kept copy [csv, dist, tree] of an earlier run
    probe,        \* the last pure call / off-line check and its result
    ROOT,         \* Merkle.sol: the immutable root of the deployed verifier
    MERKLE_ROOT,  \* DeusdMerkleDistributor: immutable root
    CLAIM_END,    \* DeusdMerkleDistributor: immutable end of the claim window
    signer,       \* DeusdMerkleDistributor: the signer address
    hasClaimed,   \* DeusdMerkleDistributor: claimed flag of every user
    owner,        \* Ownable: the owner of the distributor
    balanceOf,    \* TOKEN: the balance of every holder
    timestamp,    \* block.timestamp
    thisAddress,  \* address(this) of the distributor
    chainid,      \* block.chainid
    lastCall,     \* the last transaction sent to the distributor and its outcome
    callStack     \* the claim calls whose token transfer is in progress, the innermost last

chainVars ==
    <<MERKLE_ROOT, CLAIM_END, signer, hasClaimed, owner, balanceOf, timestamp, thisAddress,
      chainid, lastCall, callStack>>

vars ==
    <<csv, decimals, privateKey, dist, tree, exitCode, stdout, ref, probe, ROOT, MERKLE_ROOT,
      CLAIM_END, signer, hasClaimed, owner, balanceOf, timestamp, thisAddress, chainid, lastCall,
      callStack>>

\* ------------------------------------------------------------ bytes
Wei(m, e) == IF m = 0 THEN <<0, 0>> ELSE <<m, e>>

Pow10(k) == IF k = 0 THEN 1 ELSE IF k = 1 THEN 10 ELSE IF k = 2 THEN 100 ELSE 1000

\* x < y for amounts m * 10^e (mantissas below 1000).
WeiLess(x, y) ==
    IF x = y THEN FALSE
    ELSE IF x[1] = 0 THEN TRUE
    ELSE IF y[1] = 0 THEN FALSE
    ELSE IF x[2] = y[2] THEN x[1] < y[1]
    ELSE IF x[2] > y[2] + 3 THEN FALSE
    ELSE IF y[2] > x[2] + 3 THEN TRUE
    ELSE IF x[2] > y[2] THEN x[1] * Pow10(x[2] - y[2]) < y[1]
    ELSE x[1] < y[1] * Pow10(y[2] - x[2])

\* x + y for amounts of one scale (a run converts every row with the same decimals).
WeiAdd(x, y) ==
    IF x[1] = 0 THEN y
    ELSE IF y[1] = 0 THEN x
    ELSE IF x[2] >= y[2] THEN Wei(x[1] * Pow10(x[2] - y[2]) + y[1], y[2])
    ELSE Wei(x[1] + y[1] * Pow10(y[2] - x[2]), x[2])

\* abi.encode of an address (left-padded) and of a uint256: one 32-byte word each.
AddressWord(a) == <<0, a, 0>>
Word(amount) == <<0, amount[1], amount[2]>>
Packed20(a) == <<2, a>>

\* keccak256 of a byte string (a sequence of chunks): injective in the
\* byte string.
keccak256(bytes) == <<1, bytes>>

\* The order of the 32 bytes of a digest is unrelated to its preimage:
\* digests are ordered by a mixing key, ties broken by the preimages.
RECURSIVE Mix(_), MixFrom(_, _, _)
Mix(d) ==
    IF d[1] = 0 THEN (d[2] * 7 + d[3] * 13 + 3) % 251
    ELSE IF d[1] = 1 THEN MixFrom(d[2], 1, 17)
    ELSE (d[1] * 29 + d[2] * 11 + 5) % 251

MixFrom(bytes, i, h) ==
    IF i > Len(bytes) THEN h
    ELSE MixFrom(bytes, i + 1, (h * 31 + Mix(bytes[i]) * 7 + 3) % 251)

RECURSIVE ChunkLess(_, _), BytesLess(_, _, _)
ChunkLess(a, b) ==
    IF a[1] # b[1] THEN a[1] < b[1]
    ELSE IF a[1] = 1 THEN BytesLess(a[2], b[2], 1)
    ELSE IF a[1] = 0 THEN a[2] < b[2] \/ (a[2] = b[2] /\ a[3] < b[3])
    ELSE a[2] < b[2]

BytesLess(x, y, i) ==
    IF Len(x) # Len(y) THEN Len(x) < Len(y)
    ELSE IF i > Len(x) THEN FALSE
    ELSE IF x[i] = y[i] THEN BytesLess(x, y, i + 1)
    ELSE ChunkLess(x[i], y[i])

\* Buffer.compare on two 32-byte values: -1, 0 or 1.
BufferCompare(a, b) ==
    IF a = b THEN 0
    ELSE IF a[1] = 0 /\ b[1] = 0 THEN (IF WeiLess(<<a[2], a[3]>>, <<b[2], b[3]>>) THEN -1 ELSE 1)
    ELSE IF a[1] = 0 THEN -1
    ELSE IF b[1] = 0 THEN 1
    ELSE LET ka == Mix(a)
             kb == Mix(b)
         IN  IF ka # kb THEN (IF ka < kb THEN -1 ELSE 1)
             ELSE IF ChunkLess(a, b) THEN -1 ELSE 1

ZeroRoot == Word(Wei(0, 0))

\* ------------------------------------------------------------ JavaScript arrays and numbers
\* The value of reading an array outside its elements.
undefined == <<-1>>

\* Variant: a negative index counts from the end of the array (Array.prototype.at).
ElementAt_fromEnd(nodes, i) ==
    IF i >= 0 /\ i < Len(nodes) THEN nodes[i + 1]
    ELSE IF i < 0 /\ 0 - i <= Len(nodes) THEN nodes[Len(nodes) + i + 1]
    ELSE undefined

\* nodes[i] for any integer i.
ElementAt(nodes, i) == IF i >= 0 /\ i < Len(nodes) THEN nodes[i + 1] ELSE undefined

\* a % b for b > 0: the remainder takes the sign of a.
Remainder(a, b) == IF a >= 0 THEN a % b ELSE 0 - ((0 - a) % b)

\* ------------------------------------------------------------ hashing (generate-merkle-tree.ts, viem)
\* Variant: the pair is hashed in the order given.
hashPair_concat(a, b) == keccak256(<<a, b>>)

hashPair(a, b) ==
    LET lr == IF BufferCompare(a, b) <= 0 THEN <<a, b>> ELSE <<b, a>>
    IN  keccak256(<<lr[1], lr[2]>>)

encodeAbiParameters(address, amount) == <<AddressWord(address), Word(amount)>>

\* Variant: the encoded pair is hashed once.
hashLeaf_once(address, amount) == keccak256(encodeAbiParameters(address, amount))

hashLeaf(address, amount) ==
    LET innerHash == keccak256(encodeAbiParameters(address, amount))
    IN  keccak256(<<innerHash>>)

\* The for loop of buildTree from position i: the rest of the next layer.
RECURSIVE NextLayerFrom(_, _)
NextLayerFrom(currentLayer, i) ==
    IF ~(i < Len(currentLayer)) THEN <<>>
    ELSE LET a == currentLayer[i + 1]
             b == IF i + 1 < Len(currentLayer) THEN currentLayer[i + 2] ELSE currentLayer[i + 1]
         IN  <<hashPair(a, b)>> \o NextLayerFrom(currentLayer, i + 2)

\* Variant: the loop stops before an unpaired last element (i + 1 < length).
NextLayer_pairsOnly(currentLayer) ==
    IF Len(currentLayer) = 1 THEN NextLayerFrom(currentLayer, 0)
    ELSE NextLayerFrom(SubSeq(currentLayer, 1, 2 * (Len(currentLayer) \div 2)), 0)

NextLayer(currentLayer) == NextLayerFrom(currentLayer, 0)

RECURSIVE GrowLayers(_)
GrowLayers(allLayers) ==
    LET currentLayer == allLayers[Len(allLayers)]
    IN  IF Len(currentLayer) > 1
        THEN GrowLayers(Append(allLayers, NextLayer(currentLayer)))
        ELSE allLayers

\* The sibling collected at one layer, and the walk over the layers.
RECURSIVE ProofFrom(_, _, _)
ProofFrom(allLayers, layer, idx) ==
    IF ~(layer - 1 < Len(allLayers) - 1) THEN <<>>
    ELSE LET nodes == allLayers[layer]
             isRight == Remainder(idx, 2) = 1
             pairIndex == IF isRight THEN idx - 1 ELSE idx + 1
             sibling == IF pairIndex < Len(nodes) THEN ElementAt(nodes, pairIndex)
                        ELSE ElementAt(nodes, idx)
         IN  <<sibling>> \o ProofFrom(allLayers, layer + 1, idx \div 2)

\* Variant: an unpaired last leaf is left out of the tree.
buildTree_evenOnly(leaves) ==
    IF Len(leaves) = 0
    THEN [root |-> ZeroRoot, allLayers |-> <<>>]
    ELSE LET kept == IF Len(leaves) > 1 /\ Len(leaves) % 2 = 1
                     THEN SubSeq(leaves, 1, Len(leaves) - 1) ELSE leaves
             allLayers == GrowLayers(<<kept>>)
         IN  [root |-> allLayers[Len(allLayers)][1], allLayers |-> allLayers]

\* Variant: the root of no leaves is the hash of the empty byte string.
buildTree_emptyHash(leaves) ==
    IF Len(leaves) = 0
    THEN [root |-> keccak256(<<>>), allLayers |-> <<>>]
    ELSE LET allLayers == GrowLayers(<<leaves>>)
         IN  [root |-> allLayers[Len(allLayers)][1], allLayers |-> allLayers]

\* buildTree: the root and the layers its getProof closure captures.
buildTree(leaves) ==
    IF Len(leaves) = 0
    THEN [root |-> ZeroRoot, allLayers |-> <<>>]
    ELSE LET allLayers == GrowLayers(<<leaves>>)
         IN  [root |-> allLayers[Len(allLayers)][1], allLayers |-> allLayers]

\* Variant: the siblings are collected root first.
getProof_reversed(t, index) ==
    IF t.allLayers = <<>> THEN <<>>
    ELSE LET p == ProofFrom(t.allLayers, 1, index)
         IN  SubSeq([i \in 1..Len(p) |-> p[Len(p) + 1 - i]], 1, Len(p))

getProof(t, index) == IF t.allLayers = <<>> THEN <<>> ELSE ProofFrom(t.allLayers, 1, index)

\* ------------------------------------------------------------ files
Addresses == 1..MaxRows
RowAmounts == {1, 2}

\* A file that does not exist, in the shape of the file.
NoDist ==
    [exists |-> FALSE, gen |-> "", merkleRoot |-> ZeroRoot, tokenTotal |-> Wei(0, 0),
     totalEntries |-> 0, treeDepth |-> 0, config |-> <<>>, claims |-> <<>>]

NoTree == [exists |-> FALSE, root |-> ZeroRoot, entries |-> <<>>, leaves |-> <<>>, depth |-> 0]

NoRef == [csv |-> <<>>, dist |-> NoDist, tree |-> NoTree]

NoProbe == [op |-> "none"]

NoCall ==
    [op |-> "none", caller |-> 0, amount |-> 0, proof |-> <<>>, sig |-> <<>>, verified |-> FALSE,
     error |-> ""]

\* No distributor is deployed.
NotDeployed ==
    /\ MERKLE_ROOT = ZeroRoot
    /\ CLAIM_END = 0
    /\ signer = 0
    /\ hasClaimed = <<>>
    /\ owner = 0
    /\ balanceOf = <<>>
    /\ timestamp = 0
    /\ thisAddress = 0
    /\ chainid = 0
    /\ lastCall = NoCall
    /\ callStack = <<>>

\* Array.prototype.sort with comparator Cmp: a stable sort.
SortWith(s, Cmp(_, _)) ==
    LET n == Len(s)
        pos(i) == 1 + Cardinality({j \in 1..n :
                        Cmp(s[j], s[i]) < 0 \/ (Cmp(s[j], s[i]) = 0 /\ j < i)})
        order == [i \in 1..n |-> pos(i)]
    IN  SubSeq([k \in 1..n |-> s[CHOOSE i \in 1..n : order[i] = k]], 1, n)

\* localeCompare of two addresses written as 0x + 40 hex digits: digits sort
\* before letters and letter case is a lower-level difference, so two
\* different addresses compare as their values do.
localeCompare(a, b) == IF a < b THEN -1 ELSE IF a > b THEN 1 ELSE 0

RECURSIVE TwoTo(_)
TwoTo(k) == IF k = 0 THEN 1 ELSE 2 * TwoTo(k - 1)

\* Variant: Math.floor(Math.log2(n || 1))
CeilLog2_floor(n) ==
    LET m == IF n = 0 THEN 1 ELSE n
    IN  CHOOSE k \in 0..m : TwoTo(k) <= m /\ m < TwoTo(k + 1)

\* Math.ceil(Math.log2(n || 1))
RECURSIVE CeilLog2From(_, _, _)
CeilLog2From(n, k, p) == IF p >= n THEN k ELSE CeilLog2From(n, k + 1, 2 * p)

CeilLog2(n) == CeilLog2From(IF n = 0 THEN 1 ELSE n, 0, 1)

\* Variant: the total stays at its initial value.
SumAmounts_initial(entries, sum) == sum

\* entries.reduce((sum, entry) => sum + BigInt(entry.amount), 0n)
RECURSIVE SumAmounts(_, _)
SumAmounts(entries, sum) ==
    IF entries = <<>> THEN sum ELSE SumAmounts(Tail(entries), WeiAdd(sum, Head(entries).amount))

\* parseUnits(amount, decimals) of a whole-number decimal string.
parseUnits(amount, dec) == Wei(amount, dec)

\* The range check of the ABI encoder on a uint256: m * 10^e <= 2^256 - 1.
\* 2^256 - 1 has 78 digits, the first ten being 1157920892: for e >= 68 the
\* quotient (2^256 - 1) \div 10^e is its first 78 - e digits, and for e < 68
\* the quotient is above every mantissa of the model.
RECURSIVE TenTo(_)
TenTo(k) == IF k = 0 THEN 1 ELSE 10 * TenTo(k - 1)

Uint256Fits(amount) ==
    LET m == amount[1]
        e == amount[2]
    IN  IF m = 0 THEN TRUE
        ELSE IF e >= 78 THEN FALSE
        ELSE IF e >= 68 THEN m <= 1157920892 \div TenTo(e - 68)
        ELSE TRUE

\* Variant: the encoder accepts every amount.
LeafOutOfRange_never(entries) == FALSE

\* Some leaf cannot be encoded: hashLeaf throws on its amount.
LeafOutOfRange(entries) == \E i \in 1..Len(entries) : ~Uint256Fits(entries[i].amount)

\* ------------------------------------------------------------ signing (generate-merkle-tree.ts, viem)
\* privateKeyToAccount(key).address: the address a key controls.
AddressOfKey(key) == 100 + key

ExampleContract == 50
ExampleChainId == 11155111

encodePacked(onBehalfOf, amount, contractAddress, chainId) ==
    <<Packed20(onBehalfOf), Word(amount), Packed20(contractAddress), Word(Wei(chainId, 0))>>

\* account.signMessage({message: {raw}}): the EIP-191 prefixed hash of the
\* 32 raw bytes, signed; a signature names its key and the hash signed.
hashMessageRaw(raw) == keccak256(<<<<3, 28>>, raw>>)

signMessage(key, raw) == [key |-> key, hash |-> hashMessageRaw(raw)]

generateClaimSignature(key, onBehalfOf, amount, contractAddress, chainId) ==
    LET messageHash == keccak256(encodePacked(onBehalfOf, amount, contractAddress, chainId))
    IN  signMessage(key, messageHash)

\* ------------------------------------------------------------ generator 1 (generate-merkle-tree.ts, viem)
\* Variant: every row is kept, a repeated address included.
loadEntries_all(rows, seen) == rows

\* loadEntries: a row whose address was seen is dropped with a warning.
RECURSIVE loadEntries(_, _)
loadEntries(rows, seen) ==
    IF rows = <<>> THEN <<>>
    ELSE IF Head(rows).address \in seen THEN loadEntries(Tail(rows), seen)
    ELSE <<Head(rows)>> \o loadEntries(Tail(rows), seen \cup {Head(rows).address})

RECURSIVE processEntries(_, _)
processEntries(entries, dec) ==
    IF entries = <<>> THEN <<>>
    ELSE <<[address |-> Head(entries).address, amount |-> parseUnits(Head(entries).amount, dec)]>>
         \o processEntries(Tail(entries), dec)

CompareAddress(a, b) == localeCompare(a.address, b.address)

\* The claims object after the loop over the entries: a later assignment to
\* the same key replaces the record, so each key holds its last entry's record.
LastIndexOf(entries, a) ==
    CHOOSE i \in 0..(Len(entries) - 1) :
        /\ entries[i + 1].address = a
        /\ \A j \in (i + 1)..(Len(entries) - 1) : entries[j + 1].address # a

ClaimsOf(entries, Rec(_)) ==
    [a \in {entries[i].address : i \in 1..Len(entries)} |-> Rec(LastIndexOf(entries, a))]

\* entries.map((e) => hashLeaf(e.address, e.amount))
RECURSIVE LeavesOf(_)
LeavesOf(entries) ==
    IF entries = <<>> THEN <<>>
    ELSE <<hashLeaf(Head(entries).address, Head(entries).amount)>> \o LeavesOf(Tail(entries))

\* Variant: a signature that cannot be made is left empty and the files are written.
main_viem_unsigned(rows, dec, key) ==
    LET loaded == loadEntries(rows, {})
        entries == SortWith(processEntries(loaded, dec), CompareAddress)
        totalAmount == SumAmounts(entries, Wei(0, 0))
        leaves == LeavesOf(entries)
        t == buildTree(leaves)
        depth == CeilLog2(Len(leaves))
        Rec(i) == [index |-> i, amount |-> entries[i + 1].amount, proof |-> getProof(t, i),
                   signature |-> IF key = 0 THEN <<>>
                                 ELSE <<generateClaimSignature(key, entries[i + 1].address,
                                           entries[i + 1].amount, ExampleContract, ExampleChainId)>>]
    IN  IF LeafOutOfRange(entries)
        THEN [exitCode |-> 1, stdout |-> <<>>, dist |-> NoDist, tree |-> NoTree]
        ELSE [exitCode |-> 0, stdout |-> <<>>,
              dist |-> [exists |-> TRUE, gen |-> "viem", merkleRoot |-> t.root,
                        tokenTotal |-> totalAmount, totalEntries |-> Len(entries),
                        treeDepth |-> depth, config |-> <<>>,
                        claims |-> ClaimsOf(entries, Rec)],
              tree |-> [exists |-> TRUE, root |-> t.root, entries |-> entries,
                        leaves |-> leaves, depth |-> depth]]

\* main of the viem generator on the rows of the input: the exit code and the
\* files it writes (none when it exits 1).
main_viem(rows, dec, key) ==
    LET loaded == loadEntries(rows, {})
        entries == SortWith(processEntries(loaded, dec), CompareAddress)
        totalAmount == SumAmounts(entries, Wei(0, 0))
        leaves == LeavesOf(entries)
        t == buildTree(leaves)
        depth == CeilLog2(Len(leaves))
        Rec(i) == [index |-> i, amount |-> entries[i + 1].amount, proof |-> getProof(t, i),
                   signature |-> <<generateClaimSignature(key, entries[i + 1].address,
                                      entries[i + 1].amount, ExampleContract, ExampleChainId)>>]
    IN  IF LeafOutOfRange(entries)
        THEN \* encodeAbiParameters throws in hashLeaf; main catches and exits 1
             [exitCode |-> 1, stdout |-> <<>>, dist |-> NoDist, tree |-> NoTree]
        ELSE IF Len(entries) > 0 /\ key = 0
        THEN \* generateClaimSignature throws; main catches and exits 1
             [exitCode |-> 1, stdout |-> <<>>, dist |-> NoDist, tree |-> NoTree]
        ELSE [exitCode |-> 0, stdout |-> <<>>,
              dist |-> [exists |-> TRUE, gen |-> "viem", merkleRoot |-> t.root,
                        tokenTotal |-> totalAmount, totalEntries |-> Len(entries),
                        treeDepth |-> depth, config |-> <<>>,
                        claims |-> ClaimsOf(entries, Rec)],
              tree |-> [exists |-> TRUE, root |-> t.root, entries |-> entries,
                        leaves |-> leaves, depth |-> depth]]

\* A run of a generator in a fresh output directory.
Written(run) ==
    /\ exitCode = -1
    /\ exitCode' = run.exitCode
    /\ stdout' = run.stdout
    /\ dist' = run.dist
    /\ tree' = run.tree

GenerateViem == Written(main_viem(csv, decimals, privateKey))

\* ------------------------------------------------------------ generator 2 (generate-merkle-tree.ts, ethers)
\* Variant: the pair is hashed in the order given.
hashPair_ethers_concat(a, b) == keccak256(<<a, b>>)

hashPair_ethers(a, b) ==
    LET lr == IF BufferCompare(a, b) <= 0 THEN <<a, b>> ELSE <<b, a>>
    IN  keccak256(<<lr[1], lr[2]>>)

hashLeaf_ethers(address, amount) ==
    LET inner == keccak256(<<AddressWord(address), Word(amount)>>)
    IN  keccak256(<<inner>>)

RECURSIVE NextLayerFrom_ethers(_, _)
NextLayerFrom_ethers(currentLayer, i) ==
    IF ~(i < Len(currentLayer)) THEN <<>>
    ELSE LET a == currentLayer[i + 1]
             b == IF i + 1 < Len(currentLayer) THEN currentLayer[i + 2] ELSE currentLayer[i + 1]
         IN  <<hashPair_ethers(a, b)>> \o NextLayerFrom_ethers(currentLayer, i + 2)

NextLayer_ethers(currentLayer) == NextLayerFrom_ethers(currentLayer, 0)

RECURSIVE GrowLayers_ethers(_)
GrowLayers_ethers(allLayers) ==
    LET currentLayer == allLayers[Len(allLayers)]
    IN  IF Len(currentLayer) > 1
        THEN GrowLayers_ethers(Append(allLayers, NextLayer_ethers(currentLayer)))
        ELSE allLayers

RECURSIVE ProofFrom_ethers(_, _, _)
ProofFrom_ethers(allLayers, layer, idx) ==
    IF ~(layer - 1 < Len(allLayers) - 1) THEN <<>>
    ELSE LET nodes == allLayers[layer]
             isRight == Remainder(idx, 2) = 1
             pairIndex == IF isRight THEN idx - 1 ELSE idx + 1
             sibling == IF pairIndex < Len(nodes) THEN ElementAt(nodes, pairIndex)
                        ELSE ElementAt(nodes, idx)
         IN  <<sibling>> \o ProofFrom_ethers(allLayers, layer + 1, idx \div 2)

buildTreeOptimized(leaves) ==
    IF Len(leaves) = 0
    THEN [root |-> ZeroRoot, allLayers |-> <<>>]
    ELSE LET allLayers == GrowLayers_ethers(<<leaves>>)
         IN  [root |-> allLayers[Len(allLayers)][1], allLayers |-> allLayers]

\* Variant: the siblings are collected root first.
getProof_ethers_reversed(t, index) ==
    IF t.allLayers = <<>> THEN <<>>
    ELSE LET p == ProofFrom_ethers(t.allLayers, 1, index)
         IN  SubSeq([i \in 1..Len(p) |-> p[Len(p) + 1 - i]], 1, Len(p))

getProof_ethers(t, index) ==
    IF t.allLayers = <<>> THEN <<>> ELSE ProofFrom_ethers(t.allLayers, 1, index)

\* loadAndValidateEntries: with a repeated address, the Map keeps each
\* address at the place of its first row with the value of its last row.
RECURSIVE FirstRows(_, _)
FirstRows(rows, seen) ==
    IF rows = <<>> THEN <<>>
    ELSE IF Head(rows).address \in seen THEN FirstRows(Tail(rows), seen)
    ELSE <<Head(rows).address>> \o FirstRows(Tail(rows), seen \cup {Head(rows).address})

\* Variant: the Map keeps the value of the first row of an address.
LastRowOf_first(rows, a) ==
    rows[CHOOSE i \in 1..Len(rows) :
            /\ rows[i].address = a
            /\ \A j \in 1..(i - 1) : rows[j].address # a]

LastRowOf(rows, a) ==
    rows[CHOOSE i \in 1..Len(rows) :
            /\ rows[i].address = a
            /\ \A j \in (i + 1)..Len(rows) : rows[j].address # a]

loadAndValidateEntries(rows) ==
    LET duplicates == {i \in 1..Len(rows) : \E j \in 1..(i - 1) : rows[j].address = rows[i].address}
        keys == FirstRows(rows, {})
    IN  IF duplicates # {}
        THEN SubSeq([k \in 1..Len(keys) |-> LastRowOf(rows, keys[k])], 1, Len(keys))
        ELSE rows

RECURSIVE processEntries_ethers(_, _)
processEntries_ethers(entries, dec) ==
    IF entries = <<>> THEN <<>>
    ELSE <<[address |-> Head(entries).address, amount |-> parseUnits(Head(entries).amount, dec)]>>
         \o processEntries_ethers(Tail(entries), dec)

CompareEntry(a, b) ==
    LET addrCompare == localeCompare(a.address, b.address)
    IN  IF addrCompare # 0 THEN addrCompare
        ELSE IF WeiLess(a.amount, b.amount) THEN -1
        ELSE IF WeiLess(b.amount, a.amount) THEN 1 ELSE 0

\* Variant: the entries are left in input order.
sortEntries_kept(entries) == entries

sortEntries(entries) == SortWith(entries, CompareEntry)

RECURSIVE Fold_ethers(_, _)
Fold_ethers(computedRoot, proof) ==
    IF proof = <<>> THEN computedRoot
    ELSE Fold_ethers(hashPair_ethers(computedRoot, Head(proof)), Tail(proof))

\* verifyProofs: the number of failed entries (all are checked up to 100 entries).
verifyProofs(entries, root, t) ==
    Cardinality({index \in 0..(Len(entries) - 1) :
        Fold_ethers(hashLeaf_ethers(entries[index + 1].address, entries[index + 1].amount),
                    getProof_ethers(t, index)) # root})

RECURSIVE LeavesOf_ethers(_)
LeavesOf_ethers(entries) ==
    IF entries = <<>> THEN <<>>
    ELSE <<hashLeaf_ethers(Head(entries).address, Head(entries).amount)>>
         \o LeavesOf_ethers(Tail(entries))

\* The two lines verifyProofs prints: at its start, and when no proof failed.
Verifying == "Verifying generated proofs..."

Verified(verified, sampleSize) == [verified |-> verified, sampleSize |-> sampleSize]

main_ethers(rows, dec, sortOpt, verifyOpt) ==
    LET loaded == loadAndValidateEntries(rows)
        processed == processEntries_ethers(loaded, dec)
        entries == IF sortOpt THEN sortEntries(processed) ELSE processed
        totalAmount == SumAmounts(entries, Wei(0, 0))
        leaves == LeavesOf_ethers(entries)
        t == buildTreeOptimized(leaves)
        treeDepth == CeilLog2(Len(leaves))
        Rec(i) == [index |-> i, amount |-> entries[i + 1].amount,
                   proof |-> getProof_ethers(t, i), signature |-> <<>>]
        config == [decimals |-> dec, sortEntries |-> sortOpt, verifyProofs |-> verifyOpt]
    IN  IF LeafOutOfRange(entries)
        THEN \* coder.encode throws in hashLeaf; main catches and exits 1
             [exitCode |-> 1, stdout |-> <<>>, dist |-> NoDist, tree |-> NoTree]
        ELSE IF verifyOpt /\ verifyProofs(entries, t.root, t) > 0
        THEN \* PROOF_VERIFICATION_FAILED: exit 1 before any file is written
             [exitCode |-> 1, stdout |-> <<Verifying>>, dist |-> NoDist, tree |-> NoTree]
        ELSE [exitCode |-> 0,
              stdout |-> IF verifyOpt THEN <<Verifying, Verified(Len(entries), Len(entries))>>
                         ELSE <<>>,
              dist |-> [exists |-> TRUE, gen |-> "ethers", merkleRoot |-> t.root,
                        tokenTotal |-> totalAmount, totalEntries |-> Len(entries),
                        treeDepth |-> treeDepth, config |-> <<config>>,
                        claims |-> ClaimsOf(entries, Rec)],
              tree |-> [exists |-> TRUE, root |-> t.root, entries |-> entries,
                        leaves |-> leaves, depth |-> treeDepth]]

GenerateEthers(sortOpt, verifyOpt) == Written(main_ethers(csv, decimals, sortOpt, verifyOpt))

\* ------------------------------------------------------------ generator 3 (generate.ts)
DECIMALS == 18

\* Variant: the pair is hashed in the order given.
hashPair_simple_concat(a, b) == keccak256(<<a, b>>)

hashPair_simple(a, b) ==
    LET lr == IF BufferCompare(a, b) <= 0 THEN <<a, b>> ELSE <<b, a>>
    IN  keccak256(<<lr[1], lr[2]>>)

hashLeaf_simple(address, amount) ==
    LET inner == keccak256(<<AddressWord(address), Word(amount)>>)
    IN  keccak256(<<inner>>)

RECURSIVE NextFrom_simple(_, _)
NextFrom_simple(prev, i) ==
    IF ~(i < Len(prev)) THEN <<>>
    ELSE LET a == prev[i + 1]
             b == IF i + 1 < Len(prev) THEN prev[i + 2] ELSE prev[i + 1]
         IN  <<hashPair_simple(a, b)>> \o NextFrom_simple(prev, i + 2)

RECURSIVE GrowLayers_simple(_)
GrowLayers_simple(layers) ==
    LET prev == layers[Len(layers)]
    IN  IF Len(prev) > 1
        THEN GrowLayers_simple(Append(layers, NextFrom_simple(prev, 0)))
        ELSE layers

buildTree_simple(leaves) ==
    IF Len(leaves) = 0
    THEN [layers |-> << <<>> >>, root |-> ZeroRoot]
    ELSE LET layers == GrowLayers_simple(<<leaves>>)
         IN  [layers |-> layers, root |-> layers[Len(layers)][1]]

RECURSIVE getProofFrom_simple(_, _, _)
getProofFrom_simple(layers, layer, idx) ==
    IF ~(layer - 1 < Len(layers) - 1) THEN <<>>
    ELSE LET nodes == layers[layer]
             isRight == Remainder(idx, 2) = 1
             pairIndex == IF isRight THEN idx - 1 ELSE idx + 1
             sibling == IF pairIndex < Len(nodes) THEN ElementAt(nodes, pairIndex)
                        ELSE ElementAt(nodes, idx)
         IN  <<sibling>> \o getProofFrom_simple(layers, layer + 1, idx \div 2)

getProof_simple(index, layers) == getProofFrom_simple(layers, 1, index)

\* rows.map: getAddress and parseUnits(amount, DECIMALS) of every row.
RECURSIVE EntriesOf_simple(_)
EntriesOf_simple(rows) ==
    IF rows = <<>> THEN <<>>
    ELSE <<[address |-> Head(rows).address, amount |-> parseUnits(Head(rows).amount, DECIMALS)]>>
         \o EntriesOf_simple(Tail(rows))

RECURSIVE LeavesOf_simple(_)
LeavesOf_simple(entries) ==
    IF entries = <<>> THEN <<>>
    ELSE <<hashLeaf_simple(Head(entries).address, Head(entries).amount)>>
         \o LeavesOf_simple(Tail(entries))

main_simple(rows) ==
    LET entries == EntriesOf_simple(rows)
        leaves == LeavesOf_simple(entries)
        t == buildTree_simple(leaves)
        Rec(i) == [index |-> i, amount |-> entries[i + 1].amount,
                   proof |-> getProof_simple(i, t.layers), signature |-> <<>>]
    IN  [exitCode |-> 0, stdout |-> <<>>,
         dist |-> [exists |-> TRUE, gen |-> "simple", merkleRoot |-> t.root,
                   tokenTotal |-> SumAmounts(entries, Wei(0, 0)), totalEntries |-> -1,
                   treeDepth |-> -1, config |-> <<>>,
                   claims |-> ClaimsOf(entries, Rec)],
         tree |-> [exists |-> TRUE, root |-> t.root, entries |-> entries,
                   leaves |-> leaves, depth |-> Len(t.layers) - 1]]

GenerateSimple == Written(main_simple(csv))

\* ------------------------------------------------------------ verify.ts
\* Variant: the larger value of the pair is put first.
hashPair_verify_desc(a, b) ==
    LET lr == IF BufferCompare(a, b) >= 0 THEN <<a, b>> ELSE <<b, a>>
    IN  keccak256(<<lr[1], lr[2]>>)

hashPair_verify(a, b) ==
    LET lr == IF BufferCompare(a, b) <= 0 THEN <<a, b>> ELSE <<b, a>>
    IN  keccak256(<<lr[1], lr[2]>>)

hashLeaf_verify(address, amount) ==
    LET inner == keccak256(<<AddressWord(address), Word(amount)>>)
    IN  keccak256(<<inner>>)

RECURSIVE Fold_verify(_, _)
Fold_verify(computedRoot, proof) ==
    IF proof = <<>> THEN computedRoot
    ELSE Fold_verify(hashPair_verify(computedRoot, Head(proof)), Tail(proof))

\* Variant: the recomputed root is not compared with merkleRoot.
verifyAddress_noRootCheck(address, expectedAmount, d) ==
    IF address \notin DOMAIN d.claims THEN FALSE
    ELSE LET claim == d.claims[address]
         IN  ~(expectedAmount # <<>> /\ expectedAmount[1] # claim.amount)

\* Variant: a record without proof elements is rejected.
verifyAddress_needsProof(address, expectedAmount, d) ==
    IF address \notin DOMAIN d.claims THEN FALSE
    ELSE LET claim == d.claims[address]
         IN  IF expectedAmount # <<>> /\ expectedAmount[1] # claim.amount THEN FALSE
             ELSE IF claim.proof = <<>> THEN FALSE
             ELSE Fold_verify(hashLeaf_verify(address, claim.amount), claim.proof) = d.merkleRoot

\* verifyAddress(address, expectedAmount, dist); expectedAmount is <<>> when
\* not given and <<amount>> when given.
verifyAddress(address, expectedAmount, d) ==
    IF address \notin DOMAIN d.claims THEN FALSE
    ELSE LET claim == d.claims[address]
         IN  IF expectedAmount # <<>> /\ expectedAmount[1] # claim.amount THEN FALSE
             ELSE Fold_verify(hashLeaf_verify(address, claim.amount), claim.proof) = d.merkleRoot

\* ------------------------------------------------------------ verify-one (unnamed/part_000)
hashPair_one(a, b) ==
    LET lr == IF BufferCompare(a, b) <= 0 THEN <<a, b>> ELSE <<b, a>>
    IN  keccak256(<<lr[1], lr[2]>>)

hashLeaf_one(address, amount) ==
    LET inner == keccak256(<<AddressWord(address), Word(amount)>>)
    IN  keccak256(<<inner>>)

RECURSIVE processProof(_, _)
processProof(leaf, proof) ==
    IF proof = <<>> THEN leaf
    ELSE processProof(hashPair_one(leaf, Head(proof)), Tail(proof))

\* main of verify-one: the exit code (0 valid, 2 invalid, 1 not found or
\* amount mismatch).
main_verifyOne(address, amountArg, d) ==
    IF address \notin DOMAIN d.claims THEN 1
    ELSE LET claim == d.claims[address]
             amount == IF amountArg # <<>> THEN amountArg[1] ELSE claim.amount
         IN  IF amount # claim.amount THEN 1
             ELSE IF processProof(hashLeaf_one(address, amount), claim.proof) = d.merkleRoot
                  THEN 0 ELSE 2

\* ------------------------------------------------------------ Merkle.sol and the library it calls
\* OpenZeppelin Hashes.commutativeKeccak256: a < b ? keccak(a, b) : keccak(b, a)
commutativeKeccak256(a, b) ==
    IF BufferCompare(a, b) < 0 THEN keccak256(<<a, b>>) ELSE keccak256(<<b, a>>)

\* OpenZeppelin MerkleProof.processProof and MerkleProof.verify
RECURSIVE MerkleProof_processProof(_, _)
MerkleProof_processProof(proof, computedHash) ==
    IF proof = <<>> THEN computedHash
    ELSE MerkleProof_processProof(Tail(proof), commutativeKeccak256(computedHash, Head(proof)))

MerkleProof_verify(proof, root, leaf) == MerkleProof_processProof(proof, leaf) = root

\* abi.encode(account, amount)
abi_encode(account, amount) == <<AddressWord(account), Word(amount)>>

\* Variant: an empty proof is taken as valid.
Merkle_verify_emptyOk(root, proof, account, amount) ==
    LET leafHash == keccak256(<<keccak256(abi_encode(account, amount))>>)
    IN  proof = <<>> \/ MerkleProof_verify(proof, root, leafHash)

\* Merkle.verify(proof, account, amount) of the verifier deployed with root.
Merkle_verify(root, proof, account, amount) ==
    LET leafHash == keccak256(<<keccak256(abi_encode(account, amount))>>)
    IN  MerkleProof_verify(proof, root, leafHash)

\* ------------------------------------------------------------ the generation runs
Rows == [address : Addresses, amount : RowAmounts]

SeqsUpTo(S, n) == UNION {[1..k -> S] : k \in 0..n}

RowOrders(n) == {p \in [1..n -> 1..n] : \A i, j \in 1..n : i # j => p[i] # p[j]}

\* The options and the environment of a run: --decimals, PRIVATE_KEY (0: not set).
\* --decimals: none, one, and the largest scale at which one whole token
\* still fits a uint256 (10^77 < 2^256 < 2 * 10^77).
DecimalsOptions == {0, 1, 77}
KeyOptions == {0, 1}

InitGen ==
    /\ csv \in SeqsUpTo(Rows, MaxRows)
    /\ decimals \in DecimalsOptions
    /\ privateKey \in KeyOptions
    /\ dist = NoDist
    /\ tree = NoTree
    /\ exitCode = -1
    /\ stdout = <<>>
    /\ ref = NoRef
    /\ probe = NoProbe
    /\ ROOT = ZeroRoot
    /\ NotDeployed

RunViem == GenerateViem /\ UNCHANGED <<csv, decimals, privateKey, ref, probe, ROOT, chainVars>>

RunEthers == \E sortOpt, verifyOpt \in BOOLEAN :
    GenerateEthers(sortOpt, verifyOpt) /\ UNCHANGED <<csv, decimals, privateKey, ref, probe, ROOT, chainVars>>

RunSimple == GenerateSimple /\ UNCHANGED <<csv, decimals, privateKey, ref, probe, ROOT, chainVars>>

NextGen == RunViem \/ RunEthers \/ RunSimple

SpecGen == InitGen /\ [][NextGen]_vars

\* ------------------------------------------------------------ two runs over the same entries
DistinctAddresses(rows) == \A i, j \in 1..Len(rows) : i # j => rows[i].address # rows[j].address

InitOrder ==
    /\ csv \in {rows \in SeqsUpTo(Rows, MaxRows) : DistinctAddresses(rows)}
    /\ decimals \in DecimalsOptions
    /\ privateKey = 1
    /\ dist = NoDist
    /\ tree = NoTree
    /\ exitCode = -1
    /\ stdout = <<>>
    /\ ref = NoRef
    /\ probe = NoProbe
    /\ ROOT = ZeroRoot
    /\ NotDeployed

\* The operator keeps the files of a run aside and rewrites the rows of the
\* input in another order.
Reorder ==
    /\ dist.exists
    /\ ref = NoRef
    /\ \E p \in RowOrders(Len(csv)) :
          csv' = [i \in 1..Len(csv) |-> csv[p[i]]]
    /\ ref' = [csv |-> csv, dist |-> dist, tree |-> tree]
    /\ dist' = NoDist
    /\ tree' = NoTree
    /\ exitCode' = -1
    /\ stdout' = <<>>
    /\ UNCHANGED <<decimals, privateKey, probe, ROOT, chainVars>>

\* A run of the second generator with its default options (sort, verify).
RunEthersDefault ==
    GenerateEthers(TRUE, TRUE) /\ UNCHANGED <<csv, decimals, privateKey, ref, probe, ROOT, chainVars>>

NextOrder == RunViem \/ RunEthersDefault \/ Reorder

SpecOrder == InitOrder /\ [][NextOrder]_vars

\* ------------------------------------------------------------ verification of a written distribution
ProofLengths == 0..2

\* The 32-byte values a caller may put in a proof: every node of the tree,
\* the leaf of every entry the input could hold, the inner hash of an entry
\* and the zero word.
RECURSIVE NodesOf(_, _)
NodesOf(allLayers, k) ==
    IF k > Len(allLayers) THEN {}
    ELSE {allLayers[k][j] : j \in 1..Len(allLayers[k])} \cup NodesOf(allLayers, k + 1)

Pool ==
    NodesOf(buildTree(tree.leaves).allLayers, 1)
    \cup {hashLeaf(a, Wei(m, decimals)) : a \in Addresses, m \in RowAmounts}
    \cup {ZeroRoot}

SortedRows(rows) == \A i \in 1..(Len(rows) - 1) : rows[i].address < rows[i + 1].address

\* The distribution of a default run of the second generator, and a
\* verifier deployed with its root (or with another 32-byte value).
InitVerify ==
    /\ csv \in {rows \in SeqsUpTo(Rows, MaxRows) : SortedRows(rows)}
    /\ decimals = 0
    /\ privateKey = 1
    /\ LET run == main_ethers(csv, decimals, TRUE, TRUE)
       IN  /\ dist = run.dist
           /\ tree = run.tree
           /\ exitCode = run.exitCode
           /\ stdout = run.stdout
           /\ ROOT \in {run.dist.merkleRoot, hashPair(hashLeaf(1, Wei(1, 0)), hashLeaf(1, Wei(1, 0)))}
    /\ ref = NoRef
    /\ probe = NoProbe
    /\ NotDeployed

\* hashPair called both ways round, in the generator and in verify.ts.
CallHashPair ==
    /\ probe = NoProbe
    /\ \E a, b \in Pool :
        /\ probe' = [op |-> "hashPair", a |-> a, b |-> b,
                     ab |-> hashPair(a, b), ba |-> hashPair(b, a),
                     ab_verify |-> hashPair_verify(a, b), ba_verify |-> hashPair_verify(b, a)]
        /\ UNCHANGED <<csv, decimals, privateKey, dist, tree, exitCode, stdout, ref, ROOT, chainVars>>

\* A record for (account, amount, proof) is checked off-line (verify.ts,
\* against the root the verifier holds) and on-chain (Merkle.verify).
CallVerify ==
    /\ probe = NoProbe
    /\ \E account \in Addresses, m \in RowAmounts, proof \in UNION {[1..k -> Pool] : k \in ProofLengths} :
        LET amount == Wei(m, decimals)
            d == [dist EXCEPT !.merkleRoot = ROOT,
                              !.claims = [a \in {account} |->
                                  [index |-> 0, amount |-> amount, proof |-> proof, signature |-> <<>>]]]
        IN  /\ probe' = [op |-> "verify", account |-> account, amount |-> amount, proof |-> proof,
                         offline |-> verifyAddress(account, <<>>, d),
                         onchain |-> Merkle_verify(ROOT, proof, account, amount)]
            /\ UNCHANGED <<csv, decimals, privateKey, dist, tree, exitCode, stdout, ref, ROOT, chainVars>>

\* One field of a written claim record is replaced and the record checked
\* off-line by verify.ts and by verify-one.
Checked(kind, address, d) ==
    /\ probe' = [op |-> kind, address |-> address, record |-> d.claims[address],
                 valid |-> verifyAddress(address, <<>>, d),
                 exit |-> main_verifyOne(address, <<>>, d)]
    /\ UNCHANGED <<csv, decimals, privateKey, dist, tree, exitCode, stdout, ref, ROOT, chainVars>>

CheckRecord == probe = NoProbe /\ \E address \in DOMAIN dist.claims : Checked("record", address, dist)

TamperProof ==
    /\ probe = NoProbe
    /\ \E address \in DOMAIN dist.claims :
        \E k \in 1..Len(dist.claims[address].proof), q \in Pool :
            /\ q # dist.claims[address].proof[k]
            /\ Checked("tamperProof", address,
                       [dist EXCEPT !.claims[address].proof[k] = q])

TamperAmount ==
    /\ probe = NoProbe
    /\ \E address \in DOMAIN dist.claims, m \in RowAmounts \cup {0} :
        /\ Wei(m, decimals) # dist.claims[address].amount
        /\ Checked("tamperAmount", address,
                   [dist EXCEPT !.claims[address].amount = Wei(m, decimals)])

TamperBeneficiary ==
    /\ probe = NoProbe
    /\ \E address \in DOMAIN dist.claims, other \in Addresses :
        /\ other # address
        /\ Checked("tamperBeneficiary", other,
                   [dist EXCEPT !.claims = [a \in {other} |-> dist.claims[address]]])

\* The leaves of n entries, one token each.
LeafRun(n) == SubSeq([i \in 1..MaxLeaves |-> hashLeaf(i, Wei(1, 0))], 1, n)

\* buildTree called on a leaf sequence, in the two generators of
\* generate-merkle-tree.ts and in generate.ts.
CallBuildTree ==
    /\ probe = NoProbe
    /\ \E n \in 0..MaxLeaves :
        LET leaves == LeafRun(n)
            t == buildTree(leaves)
            t_simple == buildTree_simple(leaves)
        IN  /\ probe' = [op |-> "buildTree", leaves |-> leaves, root |-> t.root,
                         allLayers |-> t.allLayers, root_simple |-> t_simple.root,
                         layers_simple |-> t_simple.layers,
                         root_ethers |-> buildTreeOptimized(leaves).root]
            /\ UNCHANGED <<csv, decimals, privateKey, dist, tree, exitCode, stdout, ref, ROOT, chainVars>>

\* getProof called with any index on the tree of a leaf sequence: the value
\* returned ("returned") or the error thrown.
CallGetProof ==
    /\ probe = NoProbe
    /\ \E n \in 0..MaxLeaves, index \in (0 - 2)..(MaxLeaves + 1) :
        LET leaves == LeafRun(n)
        IN  /\ probe' = [op |-> "getProof", leaves |-> leaves, index |-> index,
                         outcome |-> "returned",
                         proof |-> getProof(buildTree(leaves), index),
                         proof_ethers |-> getProof_ethers(buildTreeOptimized(leaves), index),
                         proof_simple |-> getProof_simple(index, buildTree_simple(leaves).layers)]
            /\ UNCHANGED <<csv, decimals, privateKey, dist, tree, exitCode, stdout, ref, ROOT, chainVars>>

NextVerify ==
    \/ CallHashPair
    \/ CallVerify
    \/ CheckRecord
    \/ TamperProof
    \/ TamperAmount
    \/ TamperBeneficiary
    \/ CallBuildTree
    \/ CallGetProof

SpecVerify == InitVerify /\ [][NextVerify]_vars

\* ------------------------------------------------------------ the roots of two leaf sequences
\* The leaves of three entries, and the non-empty leaf sequences over them.
RootLeaves == {hashLeaf(a, Wei(1, 0)) : a \in {1, 2, 3}}

LeafSeqs == SeqsUpTo(RootLeaves, MaxRows + 1) \ {<<>>}

\* No generator has run and no contract is deployed.
InitRoots ==
    /\ csv = <<>>
    /\ decimals = 0
    /\ privateKey = 0
    /\ dist = NoDist
    /\ tree = NoTree
    /\ exitCode = -1
    /\ stdout = <<>>
    /\ ref = NoRef
    /\ probe = NoProbe
    /\ ROOT = ZeroRoot
    /\ NotDeployed

\* buildTree called on two leaf sequences.
CallBuildTrees ==
    /\ probe = NoProbe
    /\ \E first, second \in LeafSeqs :
        /\ probe' = [op |-> "roots", first |-> first, second |-> second,
                     firstRoot |-> buildTree(first).root, secondRoot |-> buildTree(second).root]
        /\ UNCHANGED <<csv, decimals, privateKey, dist, tree, exitCode, stdout, ref, ROOT, chainVars>>

NextRoots == CallBuildTrees

SpecRoots == InitRoots /\ [][NextRoots]_vars

\* ------------------------------------------------------------ DeusdMerkleDistributor (unnamed/part_004)
\* 365 days, in seconds.
ClaimWindow == 365 * 24 * 60 * 60

\* abi.encodePacked(_onBehalfOf, _amount, address(this), block.chainid)
abi_encodePacked(onBehalfOf, amount, this, chain) ==
    <<Packed20(onBehalfOf), Word(amount), Packed20(this), Word(Wei(chain, 0))>>

\* MessageHashUtils.toEthSignedMessageHash: the EIP-191 prefixed hash.
toEthSignedMessageHash(messageHash) == keccak256(<<<<3, 28>>, messageHash>>)

\* A signature of 65 bytes that is no signature of any hash.
Malformed == <<[key |-> 0, hash |-> ZeroRoot]>>

\* ECDSA.recover on a signature of one or more bytes: it reverts on bytes
\* that are no signature, gives the address of the key for the hash that was
\* signed, and for any other hash an address whose key nobody holds (-1).
ECDSA_recover(hash, signature) ==
    IF signature[1].key = 0 THEN [error |-> "ECDSAInvalidSignature", address |-> 0]
    ELSE IF signature[1].hash = hash THEN [error |-> "", address |-> AddressOfKey(signature[1].key)]
    ELSE [error |-> "", address |-> -1]

\* Variant: the chain id is left out of the signed message.
signatureCheck_noChainId(amount, signature, onBehalfOf) ==
    IF Len(signature) = 0 THEN "InvalidSignature"
    ELSE LET messageHash == keccak256(<<Packed20(onBehalfOf), Word(amount), Packed20(thisAddress)>>)
             prefixedHash == toEthSignedMessageHash(messageHash)
             recovered == ECDSA_recover(prefixedHash, signature)
         IN  IF recovered.error # "" THEN recovered.error
             ELSE IF recovered.address # signer THEN "InvalidSignature"
             ELSE ""

\* Variant: a zero-length signature skips the check.
signatureCheck_emptyPasses(amount, signature, onBehalfOf) ==
    IF Len(signature) = 0 THEN ""
    ELSE LET messageHash == keccak256(abi_encodePacked(onBehalfOf, amount, thisAddress, chainid))
             prefixedHash == toEthSignedMessageHash(messageHash)
             recoveredSigner == ECDSA_recover(prefixedHash, signature)
         IN  IF recoveredSigner.error # "" THEN recoveredSigner.error
             ELSE IF recoveredSigner.address # signer THEN "InvalidSignature"
             ELSE ""

\* _signatureCheck: the error it reverts with, "" when it returns.
signatureCheck(amount, signature, onBehalfOf) ==
    IF Len(signature) = 0 THEN "InvalidSignature"
    ELSE LET messageHash == keccak256(abi_encodePacked(onBehalfOf, amount, thisAddress, chainid))
             prefixedHash == toEthSignedMessageHash(messageHash)
             recoveredSigner == ECDSA_recover(prefixedHash, signature)
         IN  IF recoveredSigner.error # "" THEN recoveredSigner.error
             ELSE IF recoveredSigner.address # signer THEN "InvalidSignature"
             ELSE ""

\* The view function verify(proof, account, amount).
DeusdMerkleDistributor_verify(proof, account, amount) ==
    LET leaf == keccak256(<<keccak256(abi_encode(account, amount))>>)
    IN  MerkleProof_verify(proof, MERKLE_ROOT, leaf)

\* Variant: the claim window stays open at CLAIM_END itself.
claimChecks_lateEnd(msg_sender, amount, merkleProof, signature) ==
    IF amount = 0 THEN "InvalidAmount"
    ELSE IF hasClaimed[msg_sender] THEN "AlreadyClaimed"
    ELSE IF Len(merkleProof) = 0 THEN "EmptyProof"
    ELSE IF timestamp > CLAIM_END THEN "ClaimFinished"
    ELSE LET sigError == signatureCheck(Wei(amount, 0), signature, msg_sender)
             leaf == keccak256(<<keccak256(abi_encode(msg_sender, Wei(amount, 0)))>>)
         IN  IF sigError # "" THEN sigError
             ELSE IF ~MerkleProof_verify(merkleProof, MERKLE_ROOT, leaf) THEN "InvalidProof"
             ELSE ""

\* Variant: the claimed flag is not looked at.
claimChecks_noFlag(msg_sender, amount, merkleProof, signature) ==
    IF amount = 0 THEN "InvalidAmount"
    ELSE IF Len(merkleProof) = 0 THEN "EmptyProof"
    ELSE IF timestamp >= CLAIM_END THEN "ClaimFinished"
    ELSE LET sigError == signatureCheck(Wei(amount, 0), signature, msg_sender)
             leaf == keccak256(<<keccak256(abi_encode(msg_sender, Wei(amount, 0)))>>)
         IN  IF sigError # "" THEN sigError
             ELSE IF ~MerkleProof_verify(merkleProof, MERKLE_ROOT, leaf) THEN "InvalidProof"
             ELSE ""

\* Variant: the claim window is not checked.
claimChecks_noWindow(msg_sender, amount, merkleProof, signature) ==
    IF amount = 0 THEN "InvalidAmount"
    ELSE IF hasClaimed[msg_sender] THEN "AlreadyClaimed"
    ELSE IF Len(merkleProof) = 0 THEN "EmptyProof"
    ELSE LET sigError == signatureCheck(Wei(amount, 0), signature, msg_sender)
             leaf == keccak256(<<keccak256(abi_encode(msg_sender, Wei(amount, 0)))>>)
         IN  IF sigError # "" THEN sigError
             ELSE IF ~MerkleProof_verify(merkleProof, MERKLE_ROOT, leaf) THEN "InvalidProof"
             ELSE ""

\* Variant: the Merkle proof is verified before the signature.
claimChecks_proofFirst(msg_sender, amount, merkleProof, signature) ==
    IF amount = 0 THEN "InvalidAmount"
    ELSE IF hasClaimed[msg_sender] THEN "AlreadyClaimed"
    ELSE IF Len(merkleProof) = 0 THEN "EmptyProof"
    ELSE IF timestamp >= CLAIM_END THEN "ClaimFinished"
    ELSE LET sigError == signatureCheck(Wei(amount, 0), signature, msg_sender)
             leaf == keccak256(<<keccak256(abi_encode(msg_sender, Wei(amount, 0)))>>)
         IN  IF ~MerkleProof_verify(merkleProof, MERKLE_ROOT, leaf) THEN "InvalidProof"
             ELSE IF sigError # "" THEN sigError
             ELSE ""

\* The checks of claim, in order: the error it reverts with, "" when all pass.
claimChecks(msg_sender, amount, merkleProof, signature) ==
    IF amount = 0 THEN "InvalidAmount"
    ELSE IF hasClaimed[msg_sender] THEN "AlreadyClaimed"
    ELSE IF Len(merkleProof) = 0 THEN "EmptyProof"
    ELSE IF timestamp >= CLAIM_END THEN "ClaimFinished"
    ELSE LET sigError == signatureCheck(Wei(amount, 0), signature, msg_sender)
             leaf == keccak256(<<keccak256(abi_encode(msg_sender, Wei(amount, 0)))>>)
         IN  IF sigError # "" THEN sigError
             ELSE IF ~MerkleProof_verify(merkleProof, MERKLE_ROOT, leaf) THEN "InvalidProof"
             ELSE ""

\* TOKEN.safeTransfer(to, amount) from the distributor: the error it reverts
\* with, and the balances after it.
safeTransferError(amount) ==
    IF balanceOf[thisAddress] < amount THEN "ERC20InsufficientBalance" ELSE ""

safeTransfer(to, amount) ==
    [balanceOf EXCEPT ![thisAddress] = @ - amount, ![to] = @ + amount]

\* A transaction reverted or returned: what the sender saw.
Receipt(op, caller, amount, proof, sig, verified, error) ==
    lastCall' = [op |-> op, caller |-> caller, amount |-> amount, proof |-> proof, sig |-> sig,
                 verified |-> verified, error |-> error]

\* Variant: a successful claim transfers without setting the claimed flag.
claim_flagForgotten(msg_sender, amount, merkleProof, signature) ==
    LET checks == claimChecks(msg_sender, amount, merkleProof, signature)
        error == IF checks # "" THEN checks ELSE safeTransferError(amount)
    IN  /\ IF error = ""
           THEN /\ UNCHANGED hasClaimed
                /\ balanceOf' = safeTransfer(msg_sender, amount)
           ELSE UNCHANGED <<hasClaimed, balanceOf>>
        /\ Receipt("claim", msg_sender, amount, merkleProof, signature,
                   DeusdMerkleDistributor_verify(merkleProof, msg_sender, Wei(amount, 0)), error)
        /\ UNCHANGED <<signer, owner, timestamp, MERKLE_ROOT, CLAIM_END, thisAddress, chainid, callStack>>

\* claim(_amount, _merkleProof, _signature) sent by msg_sender: a revert
\* undoes every change of the call.
claim(msg_sender, amount, merkleProof, signature) ==
    LET checks == claimChecks(msg_sender, amount, merkleProof, signature)
        error == IF checks # "" THEN checks ELSE safeTransferError(amount)
    IN  /\ IF error = ""
           THEN /\ hasClaimed' = [hasClaimed EXCEPT ![msg_sender] = TRUE]
                /\ balanceOf' = safeTransfer(msg_sender, amount)
           ELSE UNCHANGED <<hasClaimed, balanceOf>>
        /\ Receipt("claim", msg_sender, amount, merkleProof, signature,
                   DeusdMerkleDistributor_verify(merkleProof, msg_sender, Wei(amount, 0)), error)
        /\ UNCHANGED <<signer, owner, timestamp, MERKLE_ROOT, CLAIM_END, thisAddress, chainid, callStack>>

\* setSigner(_signer) sent by msg_sender (onlyOwner).
setSigner(msg_sender, newSigner) ==
    LET error == IF msg_sender # owner THEN "OwnableUnauthorizedAccount" ELSE ""
    IN  /\ signer' = IF error = "" THEN newSigner ELSE signer
        /\ Receipt("setSigner", msg_sender, 0, <<>>, <<>>, FALSE, error)
        /\ UNCHANGED <<hasClaimed, balanceOf, owner, timestamp, MERKLE_ROOT, CLAIM_END,
                       thisAddress, chainid, callStack>>

\* Variant: withdraw without the onlyOwner modifier.
withdraw_anyone(msg_sender, amount) ==
    LET error == safeTransferError(amount)
    IN  /\ balanceOf' = IF error = "" THEN safeTransfer(msg_sender, amount) ELSE balanceOf
        /\ Receipt("withdraw", msg_sender, amount, <<>>, <<>>, FALSE, error)
        /\ UNCHANGED <<hasClaimed, signer, owner, timestamp, MERKLE_ROOT, CLAIM_END,
                       thisAddress, chainid, callStack>>

\* withdraw(amount) sent by msg_sender (onlyOwner).
withdraw(msg_sender, amount) ==
    LET error == IF msg_sender # owner THEN "OwnableUnauthorizedAccount"
                 ELSE safeTransferError(amount)
    IN  /\ balanceOf' = IF error = "" THEN safeTransfer(msg_sender, amount) ELSE balanceOf
        /\ Receipt("withdraw", msg_sender, amount, <<>>, <<>>, FALSE, error)
        /\ UNCHANGED <<hasClaimed, signer, owner, timestamp, MERKLE_ROOT, CLAIM_END,
                       thisAddress, chainid, callStack>>

\* ------------------------------------------------------------ a deployed distributor
\* The allowlists of a deployment (the first entry, or both), the keys in
\* use, and where a distributor may be deployed (the address and chain the
\* generator signs for, or another address, another chain).
ChainRows == <<[address |-> 1, amount |-> 1], [address |-> 2, amount |-> 2]>>
ChainInputs == {SubSeq(ChainRows, 1, n) : n \in 1..Len(ChainRows)}
Keys == {1, 2}
Contracts == {ExampleContract, ExampleContract + 1}
Chains == {ExampleChainId, ExampleChainId + 1}
ClaimAmounts == {0} \cup RowAmounts
WithdrawAmounts == {2}

Holders == Addresses \cup {AddressOfKey(k) : k \in Keys} \cup Contracts

\* The signatures a caller may send: none, bytes that are no signature, a
\* signature by any key in use for any tuple (beneficiary, amount, contract,
\* chain id).
AnySignature ==
    {<<>>, Malformed}
    \cup {<<generateClaimSignature(k, a, Wei(m, 0), c, ch)>> :
             k \in Keys, a \in Addresses, m \in RowAmounts, c \in Contracts, ch \in Chains}

\* The signatures at hand for a claim of amount by msg_sender: none, bytes
\* that are no signature, the one the generator wrote for msg_sender, and
\* one by each key for this claim on this deployment.
SignatureInputs(msg_sender, amount) ==
    {<<>>, Malformed}
    \cup {dist.claims[a].signature : a \in DOMAIN dist.claims \cap {msg_sender}}
    \cup {<<generateClaimSignature(k, msg_sender, Wei(amount, 0), thisAddress, chainid)>> : k \in Keys}

ProofInputs == {<<>>} \cup {dist.claims[a].proof : a \in DOMAIN dist.claims}

\* The distribution of a run of the viem generator, and a funded
\* distributor deployed with its root, owned by the holder of key 2, with
\* the generator's key as signer.
InitChain ==
    /\ csv \in ChainInputs
    /\ decimals = 0
    /\ privateKey = 1
    /\ LET run == main_viem(csv, decimals, privateKey)
       IN  /\ dist = run.dist
           /\ tree = run.tree
           /\ exitCode = run.exitCode
           /\ stdout = run.stdout
           /\ MERKLE_ROOT = run.dist.merkleRoot
    /\ ref = NoRef
    /\ probe = NoProbe
    /\ ROOT = ZeroRoot
    /\ timestamp = 1
    /\ CLAIM_END = timestamp + ClaimWindow
    /\ signer = AddressOfKey(privateKey)
    /\ owner = AddressOfKey(2)
    /\ thisAddress \in Contracts
    /\ chainid \in Chains
    /\ hasClaimed = [a \in Holders |-> FALSE]
    /\ balanceOf = [a \in Holders |-> IF a = thisAddress THEN dist.tokenTotal[1] ELSE 0]
    /\ lastCall = NoCall
    /\ callStack = <<>>

offChain == <<csv, decimals, privateKey, dist, tree, exitCode, stdout, ref, probe, ROOT>>

Claim ==
    \E msg_sender \in Addresses, amount \in ClaimAmounts, merkleProof \in ProofInputs :
        \E signature \in SignatureInputs(msg_sender, amount) :
            claim(msg_sender, amount, merkleProof, signature) /\ UNCHANGED offChain

SetSigner ==
    \E msg_sender \in {owner} \cup Addresses, k \in Keys :
        setSigner(msg_sender, AddressOfKey(k)) /\ UNCHANGED offChain

Withdraw ==
    \E msg_sender \in {owner} \cup Addresses, amount \in WithdrawAmounts :
        withdraw(msg_sender, amount) /\ UNCHANGED offChain

\* Time passes: to the last second of the claim window, or to its end.
Warp ==
    /\ \E t \in {CLAIM_END - 1, CLAIM_END} : t > timestamp /\ timestamp' = t
    /\ Receipt("warp", 0, 0, <<>>, <<>>, FALSE, "")
    /\ UNCHANGED <<hasClaimed, balanceOf, signer, owner, MERKLE_ROOT, CLAIM_END, thisAddress, chainid, callStack>>
    /\ UNCHANGED offChain

NextChain == Claim \/ SetSigner \/ Withdraw \/ Warp

\* Sequences of calls are followed on the chain the generator signs for.
InitCalls == InitChain /\ chainid = ExampleChainId

SpecChain == InitCalls /\ [][NextChain]_vars

\* ------------------------------------------------------------ one claim with any signature
\* A claim with any signature is sent to a distributor as deployed, or after
\* the owner has set the signer.
ClaimAny ==
    /\ lastCall.op \in {"none", "setSigner"}
    /\ \E msg_sender \in Addresses, amount \in ClaimAmounts, merkleProof \in ProofInputs :
          \E signature \in AnySignature :
              claim(msg_sender, amount, merkleProof, signature) /\ UNCHANGED offChain

SetSignerFirst == lastCall.op \in {"none", "setSigner"} /\ SetSigner

NextSig == ClaimAny \/ SetSignerFirst

SpecSig == InitChain /\ [][NextSig]_vars

\* ------------------------------------------------------------ claim with a token that calls the receiver
\* TOKEN is any contract given to the constructor.  A token whose transfer
\* runs code of the receiver (a transfer hook) lets that code send calls to
\* the distributor while the transfer of line 156 is in progress; the hook
\* may run before or after the token moves the balance.  claim is followed
\* here in its steps: lines 143-155 up to the call of the token, the token
\* moving the balance, and the return or the revert of the transfer.

\* How deep calls are followed: a claim, and the claims nested in its transfer.
MaxDepth == 2

\* The call of claim that waits for its transfer, with the state a revert restores.
Frame(msg_sender, amount, merkleProof, signature) ==
    [caller |-> msg_sender, amount |-> amount, proof |-> merkleProof, sig |-> signature,
     verified |-> DeusdMerkleDistributor_verify(merkleProof, msg_sender, Wei(amount, 0)),
     moved |-> FALSE,
     saved |-> [hasClaimed |-> hasClaimed, balanceOf |-> balanceOf]]

\* Variant: the claimed flag is not set before the token is called.
claimBegin_flagLate(msg_sender, amount, merkleProof, signature) ==
    LET checks == claimChecks(msg_sender, amount, merkleProof, signature)
    IN  /\ IF checks = ""
           THEN /\ UNCHANGED hasClaimed
                /\ callStack' = Append(callStack, Frame(msg_sender, amount, merkleProof, signature))
                /\ UNCHANGED lastCall
           ELSE /\ UNCHANGED <<hasClaimed, callStack>>
                /\ Receipt("claim", msg_sender, amount, merkleProof, signature,
                           DeusdMerkleDistributor_verify(merkleProof, msg_sender, Wei(amount, 0)),
                           checks)
        /\ UNCHANGED <<balanceOf, signer, owner, timestamp, MERKLE_ROOT, CLAIM_END, thisAddress,
                       chainid>>

\* claim, lines 143-156, up to the call of TOKEN.safeTransfer: a failed
\* check reverts the call; otherwise the flag is set and the token is called.
claimBegin(msg_sender, amount, merkleProof, signature) ==
    LET checks == claimChecks(msg_sender, amount, merkleProof, signature)
    IN  /\ IF checks = ""
           THEN /\ hasClaimed' = [hasClaimed EXCEPT ![msg_sender] = TRUE]
                /\ callStack' = Append(callStack, Frame(msg_sender, amount, merkleProof, signature))
                /\ UNCHANGED lastCall
           ELSE /\ UNCHANGED <<hasClaimed, callStack>>
                /\ Receipt("claim", msg_sender, amount, merkleProof, signature,
                           DeusdMerkleDistributor_verify(merkleProof, msg_sender, Wei(amount, 0)),
                           checks)
        /\ UNCHANGED <<balanceOf, signer, owner, timestamp, MERKLE_ROOT, CLAIM_END, thisAddress,
                       chainid>>

\* The innermost claim reverts with error: its changes, and those of the
\* calls nested in it, are undone.
claimReverts(error) ==
    LET f == callStack[Len(callStack)]
    IN  /\ hasClaimed' = f.saved.hasClaimed
        /\ balanceOf' = f.saved.balanceOf
        /\ callStack' = SubSeq(callStack, 1, Len(callStack) - 1)
        /\ Receipt("claim", f.caller, f.amount, f.proof, f.sig, f.verified, error)
        /\ UNCHANGED <<signer, owner, timestamp, MERKLE_ROOT, CLAIM_END, thisAddress, chainid>>

\* The token moves the amount of the innermost claim, or reverts for lack of balance.
tokenMoves ==
    LET f == callStack[Len(callStack)]
    IN  /\ ~f.moved
        /\ IF safeTransferError(f.amount) # ""
           THEN claimReverts(safeTransferError(f.amount))
           ELSE /\ balanceOf' = safeTransfer(f.caller, f.amount)
                /\ callStack' = [callStack EXCEPT ![Len(callStack)].moved = TRUE]
                /\ UNCHANGED <<hasClaimed, lastCall, signer, owner, timestamp, MERKLE_ROOT,
                               CLAIM_END, thisAddress, chainid>>

\* The transfer of the innermost claim returns: claim emits Claimed and returns (line 158).
transferReturns ==
    LET f == callStack[Len(callStack)]
    IN  /\ f.moved
        /\ callStack' = SubSeq(callStack, 1, Len(callStack) - 1)
        /\ Receipt("claim", f.caller, f.amount, f.proof, f.sig, f.verified, "")
        /\ UNCHANGED <<hasClaimed, balanceOf, signer, owner, timestamp, MERKLE_ROOT, CLAIM_END,
                       thisAddress, chainid>>

\* A claim is sent: by anyone when no transfer is in progress, and from the
\* receiver's code during a transfer.
ClaimBegins ==
    /\ Len(callStack) < MaxDepth
    /\ \E msg_sender \in Addresses, amount \in ClaimAmounts, merkleProof \in ProofInputs :
          \E signature \in SignatureInputs(msg_sender, amount) :
              claimBegin(msg_sender, amount, merkleProof, signature) /\ UNCHANGED offChain

TokenMoves == callStack # <<>> /\ tokenMoves /\ UNCHANGED offChain

TransferReturns == callStack # <<>> /\ transferReturns /\ UNCHANGED offChain

\* The receiver's code reverts, and with it the transfer and the claim.
TransferReverts == callStack # <<>> /\ claimReverts("ReceiverReverted") /\ UNCHANGED offChain

NextReentry == ClaimBegins \/ TokenMoves \/ TransferReturns \/ TransferReverts

SpecReentry == InitCalls /\ [][NextReentry]_vars

\* ------------------------------------------------------------ properties of generation
\* getProof of the generator that wrote the files, for the leaf at index.
ProofAt(index) ==
    IF dist.gen = "viem" THEN getProof(buildTree(tree.leaves), index)
    ELSE IF dist.gen = "ethers" THEN getProof_ethers(buildTreeOptimized(tree.leaves), index)
    ELSE getProof_simple(index, buildTree_simple(tree.leaves).layers)

\* C1 -- Round trip.  After any generator run that wrote its files: for
\* every index of the leaf sequence, folding hashPair from the leaf over
\* getProof(index), in proof order, gives the root of the tree; and every
\* claim record of the distribution verifies against its merkleRoot.
C1_RoundTrip ==
    dist.exists =>
        /\ \A i \in 1..Len(tree.leaves) :
              Fold_verify(tree.leaves[i], ProofAt(i - 1)) = tree.root
        /\ \A address \in DOMAIN dist.claims :
              /\ verifyAddress(address, <<>>, dist)
              /\ main_verifyOne(address, <<>>, dist) = 0

\* A three-leaf tree was written by the viem generator: its records carry
\* two-element proofs, one of them with the leaf as its own sibling.
C1_Witness ==
    /\ dist.exists
    /\ dist.gen = "viem"
    /\ Len(tree.leaves) = 3
    /\ \E address \in DOMAIN dist.claims :
          /\ Len(dist.claims[address].proof) = 2
          /\ dist.claims[address].proof[1] = tree.leaves[3]
          /\ dist.claims[address].index = 2

\* The entries of the written tree, in canonical order, and the tree the
\* generator that wrote the files builds from them.
CanonicalEntries == sortEntries(tree.entries)

CanonicalLeaves ==
    IF dist.gen = "simple" THEN LeavesOf_simple(CanonicalEntries) ELSE LeavesOf_ethers(CanonicalEntries)

CanonicalRoot ==
    IF dist.gen = "simple" THEN buildTree_simple(CanonicalLeaves).root
    ELSE buildTreeOptimized(CanonicalLeaves).root

\* The files were written from at least two entries with distinct
\* addresses, without the sort step, in an order that is not the canonical one.
UnsortedBuild ==
    /\ dist.exists
    /\ DistinctAddresses(csv)
    /\ dist.gen = "simple" \/ (dist.gen = "ethers" /\ ~dist.config[1].sortEntries)
    /\ Len(tree.entries) >= 2
    /\ tree.entries # CanonicalEntries

\* The k-th sibling pair of a leaf layer, as an unordered pair.
PairAt(leaves, k) ==
    {leaves[2 * k - 1], leaves[IF 2 * k <= Len(leaves) THEN 2 * k ELSE 2 * k - 1]}

PairCount(leaves) == (Len(leaves) + 1) \div 2

SiblingPairs(leaves) == {PairAt(leaves, k) : k \in 1..PairCount(leaves)}

\* C10 as stated -- every build from a non-canonical ordering has a root
\* different from the root of the canonically sorted build.
C10_AsStated == UnsortedBuild => dist.merkleRoot # CanonicalRoot

\* C10 -- The sort step.  A build from a non-canonical ordering has a
\* different root whenever its leaf layer pairs the leaves differently from
\* the canonical leaf layer; an ordering that only swaps the two leaves
\* within sibling pairs gives the same root as the canonical build (hashPair
\* is commutative), although indexes differ.
C10_SortStep ==
    UnsortedBuild =>
        /\ SiblingPairs(tree.leaves) # SiblingPairs(CanonicalLeaves)
              => dist.merkleRoot # CanonicalRoot
        /\ (\A k \in 1..PairCount(tree.leaves) :
                PairAt(tree.leaves, k) = PairAt(CanonicalLeaves, k))
              => dist.merkleRoot = CanonicalRoot

\* Three entries written without sorting, the first two swapped: the root
\* is the canonical root.
C10_Witness ==
    /\ UnsortedBuild
    /\ Len(tree.entries) = 3
    /\ \A k \in 1..PairCount(tree.leaves) : PairAt(tree.leaves, k) = PairAt(CanonicalLeaves, k)
    /\ dist.merkleRoot = CanonicalRoot

\* C9 -- Order independence.  Two runs of a sorting generator over the
\* same entries (distinct addresses) in two row orders write the same
\* merkleRoot, and for every beneficiary the same index and the same proof.
C9_OrderIndependent ==
    (ref # NoRef /\ dist.exists /\ dist.gen = ref.dist.gen) =>
        /\ tree.entries = ref.tree.entries
        /\ dist.merkleRoot = ref.dist.merkleRoot
        /\ DOMAIN dist.claims = DOMAIN ref.dist.claims
        /\ \A address \in DOMAIN dist.claims :
              /\ dist.claims[address].index = ref.dist.claims[address].index
              /\ dist.claims[address].proof = ref.dist.claims[address].proof

\* Three rows were reordered between two runs of the same generator.
C9_Witness ==
    /\ ref # NoRef
    /\ dist.exists
    /\ dist.gen = ref.dist.gen
    /\ Len(csv) = 3
    /\ csv # ref.csv
    /\ csv[1].address > csv[2].address

\* ------------------------------------------------------------ properties of verification
\* C8 -- hashPair is commutative: hashPair(a, b) = hashPair(b, a) for all
\* 32-byte values a and b, in the generator and in verify.ts.
C8_Commutative ==
    probe.op = "hashPair" =>
        /\ probe.ab = probe.ba
        /\ probe.ab_verify = probe.ba_verify
        /\ probe.ab = probe.ab_verify

\* hashPair was called on two different digests given larger first.
C8_Witness ==
    /\ probe.op = "hashPair"
    /\ probe.a # probe.b
    /\ probe.a[1] = 1
    /\ probe.b[1] = 1
    /\ BufferCompare(probe.a, probe.b) > 0

\* C3 -- Off-line and on-chain verification agree: for every account,
\* amount, proof and root, verify.ts returns what Merkle.verify returns,
\* also when the two values of a pair are equal.
C3_Agree == probe.op = "verify" => probe.offline = probe.onchain

\* A proof whose first element equals the leaf was accepted by both.
C3_Witness ==
    /\ probe.op = "verify"
    /\ probe.proof # <<>>
    /\ probe.proof[1] = hashLeaf_verify(probe.account, probe.amount)
    /\ probe.offline
    /\ probe.onchain

\* C2 -- Membership soundness: against the root of the built tree, (account,
\* amount, proof) verifies, on-chain or off-line, only if (account, amount)
\* is an entry of the tree, whatever the proof holds (leaves, internal nodes).
C2_Sound ==
    (probe.op = "verify" /\ ROOT = tree.root /\ (probe.onchain \/ probe.offline)) =>
        \E i \in 1..Len(tree.entries) :
            /\ tree.entries[i].address = probe.account
            /\ tree.entries[i].amount = probe.amount

\* An entry of a three-leaf tree was verified on-chain with its proof,
\* which holds an internal node.
C2_Witness ==
    /\ probe.op = "verify"
    /\ ROOT = tree.root
    /\ Len(tree.entries) = 3
    /\ probe.onchain
    /\ Len(probe.proof) = 2
    /\ probe.proof[2] = hashPair_ethers(tree.leaves[1], tree.leaves[2])

\* C7 -- Tamper evidence: a valid record with one proof element replaced
\* by a different 32-byte value, or its amount by a different amount, or its
\* beneficiary by a different address, fails verify.ts and verify-one.
C7_TamperEvident ==
    probe.op \in {"tamperProof", "tamperAmount", "tamperBeneficiary"} =>
        /\ ~probe.valid
        /\ probe.exit = 2

\* The second element of a two-element proof was replaced by a leaf.
C7_Witness ==
    /\ probe.op = "tamperProof"
    /\ Len(probe.record.proof) = 2
    /\ probe.record.proof[2] # dist.claims[probe.address].proof[2]
    /\ probe.record.proof[2] \in {tree.leaves[i] : i \in 1..Len(tree.leaves)}
    /\ ~probe.valid


\* ------------------------------------------------------------ properties of the distributor
\* The signature is the signer's signature over (caller, amount, this
\* contract, chain id), as the generator produces it.
SignedFor(sig, caller, amount) ==
    /\ sig # <<>>
    /\ sig[1].key # 0
    /\ AddressOfKey(sig[1].key) = signer
    /\ sig = <<generateClaimSignature(sig[1].key, caller, Wei(amount, 0), thisAddress, chainid)>>

\* Before the call that lastCall' reports: every condition of a claim holds.
AllChecksHold ==
    /\ lastCall'.amount > 0
    /\ ~hasClaimed[lastCall'.caller]
    /\ timestamp < CLAIM_END
    /\ SignedFor(lastCall'.sig, lastCall'.caller, lastCall'.amount)
    /\ lastCall'.verified

\* The call that lastCall' reports paid its caller and set the flag.
Paid ==
    /\ hasClaimed' = [hasClaimed EXCEPT ![lastCall'.caller] = TRUE]
    /\ balanceOf' = [balanceOf EXCEPT ![thisAddress] = @ - lastCall'.amount,
                                      ![lastCall'.caller] = @ + lastCall'.amount]

\* C4 -- In every sequence of calls, a claim changes a balance or a claimed
\* flag only when amount > 0, the caller has not claimed, the window is open,
\* the signature is the signer's over (caller, amount, this, chain id) and
\* the proof of (caller, amount) verifies; it then pays the amount to the
\* caller and sets the caller's flag; a claim for which a check fails reverts
\* and changes no balance and no flag.
C4_ClaimGuarded ==
    [][lastCall'.op = "claim" =>
          /\ (hasClaimed' # hasClaimed \/ balanceOf' # balanceOf \/ lastCall'.error = "")
                => (AllChecksHold /\ Paid /\ lastCall'.error = "")
          /\ ~AllChecksHold
                => (lastCall'.error # "" /\ UNCHANGED <<hasClaimed, balanceOf>>)
          /\ signer' = signer
      ]_vars

\* A claim in the last second of the window, after the owner changed the
\* signer, was paid.
C4_Witness ==
    /\ lastCall.op = "claim"
    /\ lastCall.error = ""
    /\ hasClaimed[lastCall.caller]
    /\ balanceOf[lastCall.caller] = lastCall.amount
    /\ timestamp = CLAIM_END - 1
    /\ signer = AddressOfKey(2)

\* C5 as stated -- every claim by an address that has claimed reverts with
\* AlreadyClaimed.
C5_AsStated ==
    (lastCall.op = "claim" /\ hasClaimed[lastCall.caller] /\ lastCall.error # "")
        => lastCall.error = "AlreadyClaimed"

\* C5 -- One-time claim.  In any sequence of claims, setSigner and
\* withdraw: a claimed flag never returns to false; a claim by an address
\* that has claimed reverts (with AlreadyClaimed when its amount is not zero,
\* with InvalidAmount when it is) and changes no balance; and a claim
\* succeeds only for an address that had not claimed, so each address has at
\* most one successful claim.
C5_OneTime ==
    [][/\ \A a \in Holders : hasClaimed[a] => hasClaimed'[a]
       /\ (lastCall'.op = "claim" /\ hasClaimed[lastCall'.caller]) =>
             /\ lastCall'.error = IF lastCall'.amount = 0 THEN "InvalidAmount" ELSE "AlreadyClaimed"
             /\ UNCHANGED <<hasClaimed, balanceOf>>
       /\ (lastCall'.op = "claim" /\ lastCall'.error = "") =>
             /\ ~hasClaimed[lastCall'.caller]
             /\ hasClaimed'[lastCall'.caller]
      ]_vars

\* A paid claim was sent again, with the same valid signature and proof,
\* and reverted with AlreadyClaimed.
C5_Witness ==
    /\ lastCall.op = "claim"
    /\ lastCall.error = "AlreadyClaimed"
    /\ hasClaimed[lastCall.caller]
    /\ balanceOf[lastCall.caller] = lastCall.amount
    /\ lastCall.verified
    /\ SignedFor(lastCall.sig, lastCall.caller, lastCall.amount)

\* C6 -- Signature binding.  When a claim reaches the signature check with
\* a signature made by the signer's key, the check passes if and only if the
\* signed tuple is (caller, amount, this contract, chain id) of the call: a
\* signature for another beneficiary, amount, contract address or chain id
\* is rejected with InvalidSignature.
C6_Binding ==
    (/\ lastCall.op = "claim"
     /\ lastCall.error \notin {"InvalidAmount", "AlreadyClaimed", "EmptyProof", "ClaimFinished"}
     /\ lastCall.sig # <<>>
     /\ lastCall.sig[1].key # 0
     /\ AddressOfKey(lastCall.sig[1].key) = signer)
    => (lastCall.error # "InvalidSignature"
          <=> SignedFor(lastCall.sig, lastCall.caller, lastCall.amount))

\* The signature the generator wrote for an entry was sent, with the
\* entry's amount and proof, to a distributor at another address, and rejected.
C6_Witness ==
    /\ lastCall.op = "claim"
    /\ thisAddress # ExampleContract
    /\ chainid = ExampleChainId
    /\ signer = AddressOfKey(privateKey)
    /\ lastCall.caller \in DOMAIN dist.claims
    /\ lastCall.sig = dist.claims[lastCall.caller].signature
    /\ Wei(lastCall.amount, 0) = dist.claims[lastCall.caller].amount
    /\ lastCall.verified
    /\ lastCall.error = "InvalidSignature"

\* ------------------------------------------------------------ properties of the written distribution
\* The addresses of the entries the tree was built from are pairwise different.
UniqueBeneficiaries(entries) ==
    \A i, j \in 1..Len(entries) : i # j => entries[i].address # entries[j].address

\* Every record points at the leaf of its own address and amount.
RecordsMatchLeaves ==
    \A address \in DOMAIN dist.claims :
        LET record == dist.claims[address]
        IN  /\ record.index \in 0..(Len(tree.leaves) - 1)
            /\ tree.leaves[record.index + 1] = hashLeaf(address, record.amount)

\* C11 as stated -- in every distribution written by a generator, for any
\* input rows (rows repeating an address included), the number of claim
\* records equals the number of leaves the tree was built from (written as
\* totalEntries where the generator writes that field), no two leaves belong
\* to the same beneficiary, and the record with index i for address A and
\* amount m has leaves[i] = hashLeaf(A, m).
C11_AsStated ==
    dist.exists =>
        /\ Cardinality(DOMAIN dist.claims) = Len(tree.leaves)
        /\ dist.totalEntries # -1 => dist.totalEntries = Len(tree.leaves)
        /\ UniqueBeneficiaries(tree.entries)
        /\ RecordsMatchLeaves

\* C11 -- what holds of every generator: each record points at the leaf of
\* its own address and amount; the two generators of generate-merkle-tree.ts
\* drop repeated addresses, so their records are as many as the leaves and
\* totalEntries, and no two leaves share a beneficiary.
C11_RecordsAndLeaves ==
    dist.exists =>
        /\ RecordsMatchLeaves
        /\ dist.gen \in {"viem", "ethers"} =>
              /\ Cardinality(DOMAIN dist.claims) = Len(tree.leaves)
              /\ dist.totalEntries = Len(tree.leaves)
              /\ UniqueBeneficiaries(tree.entries)

\* generate.ts was run on rows that repeat an address: two leaves belong to
\* that address and the records are fewer than the leaves.
C11_Witness ==
    /\ dist.exists
    /\ dist.gen = "simple"
    /\ ~UniqueBeneficiaries(tree.entries)
    /\ Cardinality(DOMAIN dist.claims) < Len(tree.leaves)

\* The arithmetic sum of the amounts of the entries, every amount being
\* m * 10^e with the e of the run: (sum of the m) * 10^e.
RECURSIVE MantissaSum(_)
MantissaSum(entries) ==
    IF entries = <<>> THEN 0 ELSE Head(entries).amount[1] + MantissaSum(Tail(entries))

ArithmeticSum(entries) ==
    IF entries = <<>> THEN Wei(0, 0) ELSE Wei(MantissaSum(entries), entries[1].amount[2])

\* C12 -- Total conservation: the tokenTotal written to the distribution is
\* exactly the arithmetic sum of the amounts of all entries the tree was
\* built from, for every entry list (0 for the empty list).
C12_TotalConserved ==
    dist.exists =>
        /\ \A i \in 1..Len(tree.entries) : tree.entries[i].amount[2] = tree.entries[1].amount[2]
        /\ dist.tokenTotal = ArithmeticSum(tree.entries)

\* A distribution of three entries of different amounts was written: its
\* total is the sum, larger than every single amount.
C12_Witness ==
    /\ dist.exists
    /\ Len(tree.entries) = 3
    /\ tree.entries[1].amount # tree.entries[2].amount
    /\ dist.tokenTotal[1] = MantissaSum(tree.entries)
    /\ dist.tokenTotal[1] >= 4

\* C13 as stated -- Overflow fails fast: when the sum of the entries'
\* amounts exceeds 2^256 - 1 generation fails instead of writing a
\* distribution, so the tokenTotal of a written distribution, the sum of its
\* entries' amounts, is within the unsigned 256-bit range.
C13_AsStated ==
    dist.exists =>
        /\ Uint256Fits(ArithmeticSum(tree.entries))
        /\ Uint256Fits(dist.tokenTotal)

\* C13 -- what the generators check: a run fails when a single amount is
\* out of the unsigned 256-bit range (the leaf cannot be encoded), so every
\* amount of a written distribution is in range; the sum is not checked, and
\* the tokenTotal written is the exact sum, never a wrapped one.
C13_AmountsInRange ==
    dist.exists =>
        /\ \A i \in 1..Len(tree.entries) : Uint256Fits(tree.entries[i].amount)
        /\ dist.tokenTotal = ArithmeticSum(tree.entries)

\* A distribution was written whose amounts are each in range and whose
\* tokenTotal is above 2^256 - 1.
C13_Witness ==
    /\ dist.exists
    /\ exitCode = 0
    /\ Len(tree.entries) >= 2
    /\ \A i \in 1..Len(tree.entries) : Uint256Fits(tree.entries[i].amount)
    /\ ~Uint256Fits(dist.tokenTotal)

\* ceil(log2(n)) for n >= 1: the least k with 2^k >= n.
Log2Ceil(n) == CHOOSE k \in 0..n : TwoTo(k) >= n /\ (k = 0 \/ TwoTo(k - 1) < n)

\* The number of layers of the tree the written leaves build.
LayerCount == Len(buildTree(tree.leaves).allLayers)

\* C14 -- Proof length equals depth: for every N >= 1 and every index i in
\* 0..N-1, getProof(i) has exactly (number of layers - 1) elements, which is
\* the treeDepth written (distribution.json of generate-merkle-tree.ts,
\* depth of tree.json in all generators), ceil(log2(N)); treeDepth is 0
\* exactly when totalEntries <= 1.
C14_ProofLength ==
    /\ (dist.exists /\ Len(tree.leaves) >= 1) =>
          /\ tree.depth = LayerCount - 1
          /\ tree.depth = Log2Ceil(Len(tree.leaves))
          /\ dist.treeDepth # -1 => dist.treeDepth = tree.depth
          /\ \A i \in 0..(Len(tree.leaves) - 1) :
                /\ Len(getProof(buildTree(tree.leaves), i)) = tree.depth
                /\ \A address \in DOMAIN dist.claims :
                      dist.claims[address].index = i
                          => Len(dist.claims[address].proof) = tree.depth
    /\ dist.exists =>
          /\ tree.depth = 0 <=> Len(tree.leaves) <= 1
          /\ dist.totalEntries # -1 => (dist.treeDepth = 0 <=> dist.totalEntries <= 1)

\* A distribution of three entries was written by the viem generator: three
\* layers, treeDepth 2, every proof of two elements.
C14_Witness ==
    /\ dist.exists
    /\ dist.gen = "viem"
    /\ dist.totalEntries = 3
    /\ LayerCount = 3
    /\ dist.treeDepth = 2
    /\ \A address \in DOMAIN dist.claims : Len(dist.claims[address].proof) = 2

\* ------------------------------------------------------------ properties of buildTree and getProof
\* C15 -- Layer construction: for every non-empty leaf sequence buildTree
\* ends with a last layer of exactly one element, the root; each layer k+1
\* has ceil(len(layer k) / 2) elements, its element j being
\* hashPair(layer_k[2j], layer_k[2j+1]) when 2j+1 is in range and
\* hashPair(layer_k[2j], layer_k[2j]) for the unpaired last element of an
\* odd-length layer; and the sibling getProof reports for that unpaired
\* element is the element itself.  generate.ts builds the same layers.
C15_Layers ==
    (probe.op = "buildTree" /\ Len(probe.leaves) >= 1) =>
        LET L == probe.allLayers
            t == [root |-> probe.root, allLayers |-> L]
        IN  /\ L[1] = probe.leaves
            /\ Len(L[Len(L)]) = 1
            /\ probe.root = L[Len(L)][1]
            /\ \A k \in 1..(Len(L) - 1) :
                  /\ Len(L[k + 1]) = (Len(L[k]) + 1) \div 2
                  /\ \A j \in 0..(Len(L[k + 1]) - 1) :
                        L[k + 1][j + 1] =
                            IF 2 * j + 1 < Len(L[k])
                            THEN hashPair(L[k][2 * j + 1], L[k][2 * j + 2])
                            ELSE hashPair(L[k][2 * j + 1], L[k][2 * j + 1])
            /\ \A i \in 0..(Len(probe.leaves) - 1), k \in 1..(Len(L) - 1) :
                  LET idx == i \div TwoTo(k - 1)
                  IN  (idx = Len(L[k]) - 1 /\ idx % 2 = 0)
                          => getProof(t, i)[k] = L[k][idx + 1]
            /\ probe.layers_simple = L
            /\ probe.root_simple = probe.root

\* buildTree was called on five leaves: the leaf layer and the layer above
\* it (three elements) are both of odd length.
C15_Witness ==
    /\ probe.op = "buildTree"
    /\ Len(probe.leaves) = 5
    /\ Len(probe.allLayers) = 4
    /\ Len(probe.allLayers[2]) = 3
    /\ probe.allLayers[2][3] = hashPair(probe.leaves[5], probe.leaves[5])
    /\ getProof([root |-> probe.root, allLayers |-> probe.allLayers], 4)
          = <<probe.leaves[5], probe.allLayers[2][3], probe.allLayers[3][1]>>

\* C16 -- Single-entry set: for a one-entry list the root equals the
\* single leaf, treeDepth is 0, getProof(0) is the empty sequence, and
\* verification of the leaf with the empty proof against the root returns
\* true.
C16_SingleEntry ==
    (dist.exists /\ Len(tree.entries) = 1) =>
        LET entry == tree.entries[1]
        IN  /\ tree.leaves = <<hashLeaf(entry.address, entry.amount)>>
            /\ dist.merkleRoot = tree.leaves[1]
            /\ tree.depth = 0
            /\ dist.treeDepth # -1 => dist.treeDepth = 0
            /\ getProof(buildTree(tree.leaves), 0) = <<>>
            /\ DOMAIN dist.claims = {entry.address}
            /\ dist.claims[entry.address].index = 0
            /\ dist.claims[entry.address].proof = <<>>
            /\ verifyAddress(entry.address, <<>>, dist)
            /\ verifyAddress(entry.address, <<entry.amount>>, dist)

\* A distribution of one entry was written from two rows of one address
\* (the generator dropped the repeat): its root is the leaf, its proof empty.
C16_Witness ==
    /\ dist.exists
    /\ Len(tree.entries) = 1
    /\ Len(csv) = 2
    /\ dist.merkleRoot = hashLeaf(csv[1].address, tree.entries[1].amount)
    /\ dist.claims[csv[1].address].proof = <<>>

\* The indexes a proof may be asked for: in range, negative and too large.
AnyIndex == (0 - 2)..(MaxLeaves + 1)

\* C17 -- Empty input: for an empty leaf sequence buildTree returns the
\* all-zero 32-byte root and getProof returns the empty sequence for every
\* index; the generated distribution contains no claim record (totalEntries
\* 0, where the field is written), so no valid proof is produced: off-line
\* verification finds no address.
C17_EmptyInput ==
    (dist.exists /\ tree.leaves = <<>>) =>
        /\ tree.entries = <<>>
        /\ buildTree(tree.leaves).root = ZeroRoot
        /\ buildTree_simple(tree.leaves).root = ZeroRoot
        /\ \A index \in AnyIndex :
              /\ getProof(buildTree(tree.leaves), index) = <<>>
              /\ getProof_simple(index, buildTree_simple(tree.leaves).layers) = <<>>
        /\ dist.merkleRoot = ZeroRoot
        /\ tree.root = ZeroRoot
        /\ dist.claims = <<>>
        /\ dist.totalEntries \in {0, -1}
        /\ dist.tokenTotal = Wei(0, 0)
        /\ \A address \in Addresses : ~verifyAddress(address, <<>>, dist)

\* The viem generator ran on an input without rows and wrote a
\* distribution with the zero root and no record.
C17_Witness ==
    /\ csv = <<>>
    /\ exitCode = 0
    /\ dist.exists
    /\ dist.gen = "viem"
    /\ dist.merkleRoot = ZeroRoot
    /\ dist.totalEntries = 0
    /\ DOMAIN dist.claims = {}

\* A proof was requested for an index outside 0..N-1 of a tree of N >= 1 leaves.
OutOfRangeRequest ==
    /\ probe.op = "getProof"
    /\ Len(probe.leaves) >= 1
    /\ (probe.index < 0 \/ probe.index >= Len(probe.leaves))

\* C18 as stated -- Out-of-range proof requests fail: for a tree built from
\* N >= 1 leaves, a proof request with index < 0 or index >= N is reported
\* to the caller as a distinct OutOfRangeIndex failure and never returns a
\* proof sequence.
C18_AsStated == OutOfRangeRequest => probe.outcome = "OutOfRangeIndex"

\* C18 -- what getProof does with an index outside 0..N-1: it checks no
\* range and returns a sequence with one element per layer below the root,
\* the same in generate-merkle-tree.ts and generate.ts.  The first element is
\* the first leaf for index -1, the last leaf for index N when N is odd, and
\* undefined (a read outside the layer) otherwise.
C18_NoRangeCheck ==
    OutOfRangeRequest =>
        LET N == Len(probe.leaves)
        IN  /\ probe.outcome = "returned"
            /\ Len(probe.proof) = Log2Ceil(N)
            /\ probe.proof_simple = probe.proof
            /\ N >= 2 =>
                  probe.proof[1] =
                      IF probe.index = 0 - 1 THEN probe.leaves[1]
                      ELSE IF probe.index = N /\ N % 2 = 1 THEN probe.leaves[N]
                      ELSE undefined

\* getProof(3) on a tree of three leaves returned the proof of index 2.
C18_Witness ==
    /\ OutOfRangeRequest
    /\ Len(probe.leaves) = 3
    /\ probe.index = 3
    /\ probe.outcome = "returned"
    /\ probe.proof = getProof(buildTree(probe.leaves), 2)
    /\ probe.proof[1] = probe.leaves[3]

\* ------------------------------------------------------------ generated records on the distributor
\* The call that lastCall' reports is a claim by a beneficiary of the
\* distribution with the amount, proof and signature of its record.
RecordSent ==
    /\ lastCall'.op = "claim"
    /\ lastCall'.caller \in DOMAIN dist.claims
    /\ Wei(lastCall'.amount, 0) = dist.claims[lastCall'.caller].amount
    /\ lastCall'.proof = dist.claims[lastCall'.caller].proof
    /\ lastCall'.sig = dist.claims[lastCall'.caller].signature

\* Before that call: the distributor holds the root of the distribution, is
\* at the address and on the chain the generator signed for, with the
\* generator's key as signer; the window is open, the caller has not claimed
\* and the distributor holds the amount.
ReadyFor ==
    /\ MERKLE_ROOT = dist.merkleRoot
    /\ thisAddress = ExampleContract
    /\ chainid = ExampleChainId
    /\ signer = AddressOfKey(privateKey)
    /\ timestamp < CLAIM_END
    /\ ~hasClaimed[lastCall'.caller]
    /\ balanceOf[thisAddress] >= lastCall'.amount

\* C19 as stated -- Generated records are claimable on-chain: for every
\* distribution generated from N >= 1 entries (N = 1 included), each claim
\* record is accepted by claim() when its beneficiary calls with the record's
\* amount, proof and signature, on a distributor whose MERKLE_ROOT is the
\* distribution's root and whose address, chain id and signer are those
\* signed for, before CLAIM_END, not yet claimed, and holding the amount.
C19_AsStated == [][(RecordSent /\ ReadyFor) => lastCall'.error = ""]_vars

\* C19 -- what claim() does with a generated record under those
\* conditions: it accepts and pays the record of a distribution of two
\* entries, whose proof has one element; it reverts with EmptyProof on the
\* record of a one-entry distribution, whose proof is empty.
C19_RecordsClaimable ==
    [][(RecordSent /\ ReadyFor) =>
          /\ Len(lastCall'.proof) = 0 <=> Len(tree.entries) = 1
          /\ lastCall'.verified
          /\ IF Len(lastCall'.proof) = 0
             THEN lastCall'.error = "EmptyProof" /\ UNCHANGED <<hasClaimed, balanceOf>>
             ELSE lastCall'.error = "" /\ Paid
      ]_vars

\* The second beneficiary of a two-entry distribution claimed with the
\* amount, proof and signature of its record, after the first had, and was paid.
C19_Witness ==
    /\ lastCall.op = "claim"
    /\ lastCall.error = ""
    /\ Len(tree.entries) = 2
    /\ lastCall.caller = tree.entries[2].address
    /\ lastCall.proof = dist.claims[lastCall.caller].proof
    /\ lastCall.sig = dist.claims[lastCall.caller].signature
    /\ Wei(lastCall.amount, 0) = dist.claims[lastCall.caller].amount
    /\ thisAddress = ExampleContract
    /\ hasClaimed[tree.entries[1].address]
    /\ hasClaimed[lastCall.caller]
    /\ balanceOf[lastCall.caller] = lastCall.amount
    /\ balanceOf[thisAddress] = 0

\* C20 -- Effect of a successful claim: the caller's token balance
\* increases by exactly the claimed amount, the distributor's balance
\* decreases by the same amount, hasClaimed[caller] becomes true, and nothing
\* else changes: signer, owner, MERKLE_ROOT, CLAIM_END, the claimed flags and
\* the balances of all other addresses.
C20_ClaimEffect ==
    [][(lastCall'.op = "claim" /\ lastCall'.error = "") =>
          LET caller == lastCall'.caller
              amount == lastCall'.amount
          IN  /\ amount > 0
              /\ caller # thisAddress
              /\ balanceOf'[caller] = balanceOf[caller] + amount
              /\ balanceOf'[thisAddress] = balanceOf[thisAddress] - amount
              /\ ~hasClaimed[caller]
              /\ hasClaimed'[caller]
              /\ \A a \in Holders \ {caller} : hasClaimed'[a] = hasClaimed[a]
              /\ \A a \in Holders \ {caller, thisAddress} : balanceOf'[a] = balanceOf[a]
              /\ DOMAIN hasClaimed' = DOMAIN hasClaimed
              /\ DOMAIN balanceOf' = DOMAIN balanceOf
              /\ UNCHANGED <<signer, owner, MERKLE_ROOT, CLAIM_END, thisAddress, chainid, timestamp>>
      ]_vars

\* The owner had set another signer and both beneficiaries have been paid,
\* the first of them by the last call: the distributor is empty, the root
\* and the end of the window are those of the deployment.
C20_Witness ==
    /\ lastCall.op = "claim"
    /\ lastCall.error = ""
    /\ lastCall.caller = 1
    /\ lastCall.amount = 1
    /\ signer = AddressOfKey(2)
    /\ signer # AddressOfKey(privateKey)
    /\ hasClaimed[1]
    /\ hasClaimed[2]
    /\ balanceOf[1] = 1
    /\ balanceOf[2] = 2
    /\ balanceOf[thisAddress] = 0
    /\ MERKLE_ROOT = dist.merkleRoot
    /\ CLAIM_END = 1 + ClaimWindow

\* ------------------------------------------------------------ the claim window
\* C21 as stated -- every claim() executed at a time >= CLAIM_END is
\* rejected with the reason ClaimFinished, whatever its other arguments.
C21_AsStated ==
    [][(lastCall'.op = "claim" /\ timestamp >= CLAIM_END) => lastCall'.error = "ClaimFinished"]_vars

\* C21 -- Claim window: CLAIM_END is the deployment time (1) plus 365 days
\* (31536000 seconds) and never changes; every claim() executed at a time
\* >= CLAIM_END is rejected and changes no state.  Its reason is
\* ClaimFinished when the amount is not zero, the caller has not claimed and
\* the proof is not empty, whatever the signature and the proof are;
\* otherwise it is the reason of the earlier check that fails (InvalidAmount,
\* AlreadyClaimed, EmptyProof).
C21_ClaimWindow ==
    [][/\ CLAIM_END = 1 + 31536000
       /\ CLAIM_END' = CLAIM_END
       /\ (lastCall'.op = "claim" /\ timestamp >= CLAIM_END) =>
             /\ lastCall'.error =
                   IF lastCall'.amount = 0 THEN "InvalidAmount"
                   ELSE IF hasClaimed[lastCall'.caller] THEN "AlreadyClaimed"
                   ELSE IF Len(lastCall'.proof) = 0 THEN "EmptyProof"
                   ELSE "ClaimFinished"
             /\ UNCHANGED <<hasClaimed, balanceOf, signer, owner, MERKLE_ROOT, CLAIM_END,
                            timestamp, thisAddress, chainid, callStack>>
      ]_vars

\* At CLAIM_END itself a beneficiary that had not claimed sent the amount,
\* proof and a valid signature of its record, and was rejected with
\* ClaimFinished.
C21_Witness ==
    /\ lastCall.op = "claim"
    /\ timestamp = CLAIM_END
    /\ lastCall.error = "ClaimFinished"
    /\ lastCall.verified
    /\ SignedFor(lastCall.sig, lastCall.caller, lastCall.amount)
    /\ ~hasClaimed[lastCall.caller]
    /\ balanceOf[lastCall.caller] = 0
    /\ balanceOf[thisAddress] >= lastCall.amount

\* ------------------------------------------------------------ bad signatures
\* The signature of the call that lastCall' reports is zero-length, is no
\* signature at all, or recovers to an address other than the signer (it was
\* made by another key, or over another message than that of this call).
BadSignature ==
    LET sig == lastCall'.sig
        message == keccak256(abi_encodePacked(lastCall'.caller, Wei(lastCall'.amount, 0),
                                               thisAddress, chainid))
    IN  \/ sig = <<>>
        \/ sig = Malformed
        \/ AddressOfKey(sig[1].key) # signer
        \/ sig[1].hash # toEthSignedMessageHash(message)

\* C22 -- Bad signatures are rejections: a claim() whose signature is
\* zero-length, malformed, or recovers to an address other than the stored
\* signer is always rejected, with no token transfer and no claimed flag set
\* (no state changes), even when its Merkle proof is valid; when the four
\* checks before the signature check pass, the reason is InvalidSignature, or
\* the error of ECDSA.recover for bytes that are no signature.
C22_BadSignatureRejected ==
    [][(lastCall'.op = "claim" /\ BadSignature) =>
          /\ lastCall'.error # ""
          /\ UNCHANGED <<hasClaimed, balanceOf, signer, owner, MERKLE_ROOT, CLAIM_END>>
          /\ lastCall'.error \notin {"InvalidAmount", "AlreadyClaimed", "EmptyProof", "ClaimFinished"}
                => lastCall'.error =
                      IF lastCall'.sig = Malformed THEN "ECDSAInvalidSignature" ELSE "InvalidSignature"
      ]_vars

\* A beneficiary sent its amount and valid proof with a signature over the
\* right message made by a key that is not the signer's, and was rejected.
C22_Witness ==
    /\ lastCall.op = "claim"
    /\ lastCall.verified
    /\ Len(lastCall.proof) > 0
    /\ lastCall.sig # <<>>
    /\ lastCall.sig # Malformed
    /\ AddressOfKey(lastCall.sig[1].key) # signer
    /\ lastCall.sig = <<generateClaimSignature(lastCall.sig[1].key, lastCall.caller,
                            Wei(lastCall.amount, 0), thisAddress, chainid)>>
    /\ lastCall.error = "InvalidSignature"
    /\ ~hasClaimed[lastCall.caller]
    /\ balanceOf[lastCall.caller] = 0

\* ------------------------------------------------------------ the self-check of a run
\* The run verified every proof it generated (N of N, N <= 100) before it
\* wrote its files.
AllProofsVerified == stdout = <<Verifying, Verified(Len(tree.entries), Len(tree.entries))>>

\* C23 as stated -- Mandatory post-build self-check: in every run of a
\* generator that writes its files, all generated proofs (N <= 100) were
\* verified after the tree was built and before the files were written.
C23_AsStated == dist.exists => AllProofsVerified

\* C23 -- the self-check as the generators have it: only the ethers
\* generator verifies, and only when --no-verify is not given; such a run
\* verifies all N proofs before writing and never fails its own check, and a
\* run that started the check and exited 1 wrote no file.  The viem
\* generator, generate.ts and an ethers run with --no-verify write their files
\* without verifying any proof.
C23_SelfCheck ==
    /\ dist.exists =>
          (AllProofsVerified <=> (dist.gen = "ethers" /\ dist.config[1].verifyProofs))
    /\ (dist.exists /\ ~AllProofsVerified) => stdout = <<>>
    /\ (stdout # <<>> /\ stdout[1] = Verifying) => (exitCode = 0 /\ dist.exists /\ tree.exists)
    /\ exitCode = 1 => (~dist.exists /\ ~tree.exists)

\* The viem generator wrote a distribution of three entries, each record
\* with a proof, and verified none of them.
C23_Witness ==
    /\ dist.exists
    /\ dist.gen = "viem"
    /\ exitCode = 0
    /\ Len(tree.entries) = 3
    /\ \A address \in DOMAIN dist.claims : Len(dist.claims[address].proof) = 2
    /\ stdout = <<>>

\* ------------------------------------------------------------ withdrawal
\* The call that lastCall' reports moved its amount from the distributor to
\* its caller.
Withdrawn ==
    balanceOf' = [balanceOf EXCEPT ![thisAddress] = @ - lastCall'.amount,
                                   ![lastCall'.caller] = @ + lastCall'.amount]

Untouched ==
    UNCHANGED <<hasClaimed, balanceOf, signer, owner, MERKLE_ROOT, CLAIM_END, timestamp,
                thisAddress, chainid, callStack>>

\* C24 as stated -- Owner withdrawal: withdraw(amount) called by the owner
\* moves exactly amount tokens from the distributor to the owner and changes
\* no claimed flag; called by any other address it is rejected and changes no
\* state.
C24_AsStated ==
    [][lastCall'.op = "withdraw" =>
          IF lastCall'.caller = owner
          THEN lastCall'.error = "" /\ Withdrawn /\ UNCHANGED hasClaimed
          ELSE lastCall'.error # "" /\ Untouched
      ]_vars

\* C24 -- Owner withdrawal: withdraw(amount) called by the owner while the
\* distributor holds at least amount tokens moves exactly amount tokens from
\* the distributor to the owner and changes no claimed flag and nothing
\* else; called by the owner for more than the distributor holds, the
\* transfer reverts and nothing changes; called by any other address it is
\* rejected (OwnableUnauthorizedAccount) and changes no state.
C24_Withdraw ==
    [][lastCall'.op = "withdraw" =>
          IF lastCall'.caller # owner
          THEN lastCall'.error = "OwnableUnauthorizedAccount" /\ Untouched
          ELSE IF balanceOf[thisAddress] >= lastCall'.amount
          THEN /\ lastCall'.error = ""
               /\ Withdrawn
               /\ balanceOf'[owner] = balanceOf[owner] + lastCall'.amount
               /\ UNCHANGED <<hasClaimed, signer, owner, MERKLE_ROOT, CLAIM_END, timestamp,
                              thisAddress, chainid, callStack>>
          ELSE lastCall'.error # "" /\ Untouched
      ]_vars

\* After a beneficiary had claimed, the owner withdrew the two tokens left:
\* the beneficiary keeps its flag and its token.
C24_Witness ==
    /\ lastCall.op = "withdraw"
    /\ lastCall.caller = owner
    /\ lastCall.error = ""
    /\ lastCall.amount = 2
    /\ balanceOf[owner] = 2
    /\ balanceOf[thisAddress] = 0
    /\ hasClaimed[1]
    /\ balanceOf[1] = 1
    /\ ~hasClaimed[2]

\* ------------------------------------------------------------ what the root commits to
\* C25 as stated -- the root commits to the whole ordered leaf sequence:
\* two different non-empty leaf sequences (differing in length, in order, or
\* in some element) never produce the same root from buildTree.
C25_AsStated ==
    (probe.op = "roots" /\ probe.first # probe.second) => probe.firstRoot # probe.secondRoot

\* C25 -- what the root commits to, with a collision-free hash: two
\* non-empty leaf sequences with the same root have the same sibling pairs at
\* the leaf layer, as unordered pairs, an unpaired last leaf being paired
\* with itself (so they have the same set of leaves); a sequence of one leaf
\* shares its root with no other sequence; equal sequences have equal roots.
\* The order of the two leaves of a pair, the order of the pairs, and a
\* repeated unpaired last leaf are not committed to.
C25_CommitsToPairs ==
    probe.op = "roots" =>
        /\ probe.firstRoot = probe.secondRoot =>
              /\ SiblingPairs(probe.first) = SiblingPairs(probe.second)
              /\ {probe.first[i] : i \in 1..Len(probe.first)}
                    = {probe.second[i] : i \in 1..Len(probe.second)}
              /\ (Len(probe.first) = 1 \/ Len(probe.second) = 1) => probe.first = probe.second
        /\ probe.first = probe.second => probe.firstRoot = probe.secondRoot

\* Two different sequences of different length have one root: three
\* leaves, and the same three with the last leaf repeated.
C25_Witness ==
    /\ probe.op = "roots"
    /\ Len(probe.first) = 3
    /\ probe.first[1] # probe.first[2]
    /\ probe.first[2] # probe.first[3]
    /\ probe.first[1] # probe.first[3]
    /\ probe.second = probe.first \o <<probe.first[3]>>
    /\ probe.firstRoot = probe.secondRoot

\* ------------------------------------------------------------ the three tree builders
\* C26 -- The tree-builder re-implementations are equivalent: for every
\* leaf sequence and every index in range, buildTree of the viem generator,
\* buildTreeOptimized of the ethers generator, and buildTree + getProof of
\* generate.ts return the same root and the same proof sequence.
C26_BuildersAgree ==
    /\ probe.op = "buildTree" =>
          /\ probe.root_ethers = probe.root
          /\ probe.root_simple = probe.root
    /\ (probe.op = "getProof" /\ probe.index \in 0..(Len(probe.leaves) - 1)) =>
          /\ probe.proof_ethers = probe.proof
          /\ probe.proof_simple = probe.proof

\* The proof of the last of six leaves was asked of the three builders:
\* three siblings, the second of them the node itself.
C26_Witness ==
    /\ probe.op = "getProof"
    /\ Len(probe.leaves) = 6
    /\ probe.index = 5
    /\ Len(probe.proof_ethers) = 3
    /\ probe.proof_ethers[1] = probe.leaves[5]
    /\ probe.proof_ethers[2] = hashPair(probe.leaves[5], probe.leaves[6])
    /\ probe.proof_simple = probe.proof_ethers

\* ------------------------------------------------------------ repeated rows in the ethers generator
RowsOf(rows, a) == {i \in 1..Len(rows) : rows[i].address = a}

MaxOf(S) == CHOOSE i \in S : \A j \in S : j <= i

\* The rows whose address appears once in all, in their order.
RECURSIVE SingleRows(_, _)
SingleRows(rows, all) ==
    IF rows = <<>> THEN <<>>
    ELSE IF Cardinality(RowsOf(all, Head(rows).address)) = 1
         THEN <<Head(rows)>> \o SingleRows(Tail(rows), all)
         ELSE SingleRows(Tail(rows), all)

HasRepeatedAddress(rows) == \E i, j \in 1..Len(rows) : i < j /\ rows[i].address = rows[j].address

\* C27 -- Duplicate rows keep the last occurrence: in
\* loadAndValidateEntries, when an address appears in several input rows
\* the run is not rejected and the returned list contains that address
\* exactly once, carrying the amount of its last row; addresses that appear
\* once are returned unchanged and in input order.  Stated of the returned
\* list, and of what an unsorted run of the ethers generator wrote from it;
\* such a run ends with code 1 only when an amount does not fit a leaf.
C27_KeepsLast ==
    /\ [](LET loaded == loadAndValidateEntries(csv)
              written == tree.entries
          IN  /\ \A a \in {csv[i].address : i \in 1..Len(csv)} :
                    /\ Cardinality(RowsOf(loaded, a)) = 1
                    /\ loaded[MaxOf(RowsOf(loaded, a))].amount = csv[MaxOf(RowsOf(csv, a))].amount
              /\ \A k \in 1..Len(loaded) : RowsOf(csv, loaded[k].address) # {}
              /\ SingleRows(loaded, csv) = SingleRows(csv, csv)
              /\ (dist.exists /\ dist.gen = "ethers" /\ ~dist.config[1].sortEntries) =>
                    /\ Len(written) = Len(loaded)
                    /\ \A k \in 1..Len(written) :
                          /\ written[k].address = loaded[k].address
                          /\ written[k].amount =
                                 parseUnits(csv[MaxOf(RowsOf(csv, written[k].address))].amount,
                                            decimals))
    /\ [][((\E verifyOpt \in BOOLEAN : GenerateEthers(FALSE, verifyOpt)) /\ exitCode' = 1)
             => \E i \in 1..Len(csv) : ~Uint256Fits(parseUnits(csv[i].amount, decimals))]_vars

\* An unsorted run of the ethers generator wrote its files from three rows,
\* the first and the last for the same address with different amounts: two
\* entries, that address first with the amount of the third row.
C27_Witness ==
    /\ Len(csv) = 3
    /\ csv[1].address = csv[3].address
    /\ csv[2].address # csv[1].address
    /\ csv[1].amount # csv[3].amount
    /\ exitCode = 0
    /\ dist.exists /\ dist.gen = "ethers" /\ ~dist.config[1].sortEntries
    /\ Len(tree.entries) = 2
    /\ tree.entries[1].address = csv[1].address
    /\ tree.entries[1].amount = parseUnits(csv[3].amount, decimals)
    /\ tree.entries[2].address = csv[2].address

\* ------------------------------------------------------------ the order of the checks of claim
\* The first of the six checks that the call lastCall' reports fails on, by
\* the number of the check (7: none fails).
FirstFailingCheck ==
    IF lastCall'.amount = 0 THEN 1
    ELSE IF hasClaimed[lastCall'.caller] THEN 2
    ELSE IF lastCall'.proof = <<>> THEN 3
    ELSE IF timestamp >= CLAIM_END THEN 4
    ELSE IF BadSignature THEN 5
    ELSE IF ~lastCall'.verified THEN 6
    ELSE 7

CheckErrors ==
    <<"InvalidAmount", "AlreadyClaimed", "EmptyProof", "ClaimFinished", "InvalidSignature",
      "InvalidProof">>

\* C28 as stated: a failing claim reports the error of the first of the six
\* checks that fails, InvalidSignature for the signature check.
C28_AsStated ==
    [][(lastCall'.op = "claim" /\ FirstFailingCheck <= 6) =>
          lastCall'.error = CheckErrors[FirstFailingCheck]]_vars

\* C28 -- Fixed check order in claim(): the checks run in the order
\* amount != 0, caller not already claimed, proof non-empty, window open,
\* signature, Merkle proof, and a claim for which a check fails reports the
\* error of the first check that fails in this order (InvalidAmount,
\* AlreadyClaimed, EmptyProof, ClaimFinished, InvalidSignature, InvalidProof),
\* except that signature bytes that are no signature are reported with the
\* error of ECDSA.recover; the signature check precedes the Merkle proof
\* check.  A claim that passes the six checks succeeds, or fails in the token
\* transfer when the distributor holds less than the amount.
C28_CheckOrder ==
    [][lastCall'.op = "claim" =>
          /\ FirstFailingCheck <= 6 =>
                lastCall'.error =
                    IF FirstFailingCheck = 5 /\ lastCall'.sig = Malformed
                    THEN "ECDSAInvalidSignature"
                    ELSE CheckErrors[FirstFailingCheck]
          /\ FirstFailingCheck = 7 =>
                lastCall'.error =
                    IF balanceOf[thisAddress] < lastCall'.amount
                    THEN "ERC20InsufficientBalance" ELSE ""
          /\ (BadSignature /\ ~lastCall'.verified) => lastCall'.error # "InvalidProof"
      ]_vars

\* A claim in the open window by an address that had not claimed, with a
\* non-empty proof that does not verify and a signature by a key that is not
\* the signer's, was rejected for its signature.
C28_Witness ==
    /\ lastCall.op = "claim"
    /\ lastCall.amount > 0
    /\ ~hasClaimed[lastCall.caller]
    /\ lastCall.proof # <<>>
    /\ timestamp < CLAIM_END
    /\ lastCall.sig # <<>>
    /\ lastCall.sig # Malformed
    /\ AddressOfKey(lastCall.sig[1].key) # signer
    /\ ~lastCall.verified
    /\ lastCall.error = "InvalidSignature"

\* ------------------------------------------------------------ what a run of the viem generator leaves behind
\* The record of entry i (from 1) of the tree file is complete: the proof of
\* its leaf and a signature made with PRIVATE_KEY over its message.
RecordComplete(d, t, i) ==
    LET e == t.entries[i]
    IN  /\ e.address \in DOMAIN d.claims
        /\ d.claims[e.address].proof = getProof(buildTree(t.leaves), i - 1)
        /\ privateKey # 0
        /\ d.claims[e.address].signature =
               <<[key |-> privateKey,
                  hash |-> hashMessageRaw(keccak256(encodePacked(e.address, e.amount,
                                                         ExampleContract, ExampleChainId)))]>>

\* C29 -- Output is written only after complete generation: a run of the
\* viem generator writes distribution.json and tree.json together and only
\* with a proof and a signature for every entry; if signing fails for an
\* entry (PRIVATE_KEY is not set and there is an entry) the run exits with
\* code 1 and neither file is written.
C29_WrittenWhenComplete ==
    [][GenerateViem =>
          /\ (dist'.exists \/ tree'.exists) =>
                /\ dist'.exists /\ tree'.exists
                /\ exitCode' = 0
                /\ Len(tree'.entries) = Len(loadEntries(csv, {}))
                /\ \A i \in 1..Len(tree'.entries) : RecordComplete(dist', tree', i)
          /\ (privateKey = 0 /\ csv # <<>>) =>
                /\ exitCode' = 1
                /\ dist' = NoDist
                /\ tree' = NoTree
          /\ exitCode' \in {0, 1}
          /\ exitCode' = 1 => (dist' = NoDist /\ tree' = NoTree)
      ]_vars

\* A run on two rows whose amounts fit, without PRIVATE_KEY, ended with
\* code 1 and wrote neither file.
C29_Witness ==
    /\ Len(csv) = 2
    /\ csv[1].address # csv[2].address
    /\ decimals = 0
    /\ privateKey = 0
    /\ exitCode = 1
    /\ ~dist.exists
    /\ ~tree.exists

\* ------------------------------------------------------------ claims nested in a transfer
\* What the allowlist grants to an address.
Entitled(a) == IF a \in DOMAIN dist.claims THEN dist.claims[a].amount[1] ELSE 0

InProgress(a) == \E i \in 1..Len(callStack) : callStack[i].caller = a

\* C30 as stated: every claim by a caller whose own transfer is in progress
\* is rejected with AlreadyClaimed.
C30_AsStated ==
    [][(callStack # <<>> /\ callStack' = callStack /\ lastCall'.op = "claim"
           /\ InProgress(lastCall'.caller)) => lastCall'.error = "AlreadyClaimed"]_vars

\* C30 -- No double payout through re-entry: claim() sets
\* hasClaimed[caller] before it calls the token, so a claim() by the same
\* caller started during the token transfer gets no transfer of its own and
\* is rejected, with AlreadyClaimed when its amount is not zero, changing
\* nothing; and at no point of any interleaving of claim calls has an
\* address received more than its one payout.
C30_NoDoublePayout ==
    /\ [](/\ \A a \in Addresses : balanceOf[a] \in {0, Entitled(a)}
          /\ \A i \in 1..Len(callStack) : hasClaimed[callStack[i].caller]
          /\ \A i, j \in 1..Len(callStack) : i # j => callStack[i].caller # callStack[j].caller)
    /\ [][/\ Len(callStack') > Len(callStack) =>
                /\ ~InProgress(callStack'[Len(callStack')].caller)
                /\ hasClaimed'[callStack'[Len(callStack')].caller]
          /\ (callStack # <<>> /\ callStack' = callStack /\ lastCall'.op = "claim"
                 /\ InProgress(lastCall'.caller)) =>
                /\ lastCall'.error = IF lastCall'.amount = 0 THEN "InvalidAmount"
                                     ELSE "AlreadyClaimed"
                /\ UNCHANGED <<hasClaimed, balanceOf>>
      ]_vars

\* While the transfer of its claim was in progress, the tokens already
\* moved, the receiver sent the same claim again and was rejected with
\* AlreadyClaimed.
C30_Witness ==
    /\ Len(callStack) = 1
    /\ callStack[1].moved
    /\ balanceOf[callStack[1].caller] = callStack[1].amount
    /\ lastCall.op = "claim"
    /\ lastCall.caller = callStack[1].caller
    /\ lastCall.amount = callStack[1].amount
    /\ lastCall.proof = callStack[1].proof
    /\ lastCall.sig = callStack[1].sig
    /\ lastCall.verified
    /\ lastCall.error = "AlreadyClaimed"

====
